---- MODULE Spec2Model ----
(***************************************************************************)
(* State-machine model of EmbeddingCacheService                            *)
(* (src/ml/serving/ml_service/services/embedding_cache_service.py).        *)
(*                                                                         *)
(* One step of a task is everything a coroutine runs between two real      *)
(* suspension points of the asyncio event loop: the awaits on the redis    *)
(* client.  A redis command takes effect when the awaiting coroutine is    *)
(* resumed with its answer.  Time is a discrete clock shared by            *)
(* time.time(), the TTLCache timer and the redis server.                   *)
(***************************************************************************)
EXTENDS Integers, Sequences, FiniteSets, TLC

(* ------------------------------ bounds -------------------------------- *)

\* last value of the clock
MaxTime == 3
\* longest batch handed to get_cached_embeddings / store_embeddings
MaxBatch == 2
\* number of service calls started in one behaviour
MaxOps == 3
\* the calls of a run of one caller
SeqOps == 2
\* ttl_seconds and max_memory_items, scaled down (order of the values kept)
MockTTL == 1
HybridTTL == 2
PersistentTTL == 3
MockMaxItems == 2
HybridMaxItems == 1
PersistentMaxItems == 2
\* cleanup_interval, scaled down
CleanupInterval == 2

\* number of calls of a run that fills a memory cache beyond its capacity
LruOps == 4
\* leading characters of a sha256 hexdigest that the model keeps
DigestLen == 4

\* the retained timings that enter the average: request_times[-100:]
TimingWindow == 100

\* the placeholder of precompute_embeddings: the length of its vector,
\* [0.0] * 768, and the dimension it declares, 768, both scaled down
PlaceholderLen == 3
PlaceholderDimension == 3

Tasks == {1, 2}
Texts == {"a", "bb"}
\* one text more than the largest max_memory_items
MoreTexts == Texts \cup {"ccc"}

None == "None"

(* ------------------------- enums and configs -------------------------- *)

MEMORY_ONLY == "memory_only"
REDIS_ONLY == "redis_only"
HYBRID == "hybrid"
PERSISTENT == "persistent"

CacheStrategy == {MEMORY_ONLY, REDIS_ONLY, HYBRID, PERSISTENT}

CompressionType == {"none", "gzip", "pickle", "gzip_pickle"}

\* cache_configs, in the insertion order of the dict
ModelOrder == <<"mock", "kobert", "roberta", "onnx_kobert", "onnx_roberta">>

Models == {ModelOrder[i] : i \in 1..Len(ModelOrder)}

\* the fields of CacheConfig that never change; strategy is the variable below.
\* A redis key is a sequence of tokens, so that a glob pattern can be matched
\* against it: redis_key_prefix is the tokens the key starts with.
cache_configs ==
    [m \in Models |->
        CASE m = "mock" ->
                [model_name |-> "mock", strategy |-> MEMORY_ONLY,
                 ttl_seconds |-> MockTTL, max_memory_items |-> MockMaxItems,
                 compression |-> "none", redis_key_prefix |-> <<"embed:", "mock:">>,
                 enable_precompute |-> FALSE]
          [] m = "kobert" ->
                [model_name |-> "kobert", strategy |-> HYBRID,
                 ttl_seconds |-> HybridTTL, max_memory_items |-> HybridMaxItems,
                 compression |-> "gzip_pickle", redis_key_prefix |-> <<"embed:", "kobert:">>,
                 enable_precompute |-> TRUE]
          [] m = "roberta" ->
                [model_name |-> "roberta", strategy |-> HYBRID,
                 ttl_seconds |-> HybridTTL, max_memory_items |-> HybridMaxItems,
                 compression |-> "gzip_pickle", redis_key_prefix |-> <<"embed:", "roberta:">>,
                 enable_precompute |-> TRUE]
          [] m = "onnx_kobert" ->
                [model_name |-> "onnx_kobert", strategy |-> PERSISTENT,
                 ttl_seconds |-> PersistentTTL, max_memory_items |-> PersistentMaxItems,
                 compression |-> "gzip_pickle", redis_key_prefix |-> <<"embed:", "onnx:", "kobert:">>,
                 enable_precompute |-> TRUE]
          [] OTHER ->
                [model_name |-> "onnx_roberta", strategy |-> PERSISTENT,
                 ttl_seconds |-> PersistentTTL, max_memory_items |-> PersistentMaxItems,
                 compression |-> "gzip_pickle", redis_key_prefix |-> <<"embed:", "onnx:", "roberta:">>,
                 enable_precompute |-> TRUE]]

\* self.cache_configs.get(model_name, self.cache_configs["mock"])
ConfigOf(model_name) == IF model_name \in Models THEN model_name ELSE "mock"

\* the strategies that read and write the memory tier, and the remote tier
MemoryStrategies == {MEMORY_ONLY, HYBRID}

RedisStrategies == {REDIS_ONLY, HYBRID, PERSISTENT}

(* ------------------------------ hashing ------------------------------- *)

\* _generate_text_hash with the model name left out of the hashed content
_generate_text_hash_textonly(text, model_name) == "sha256(" \o text \o ")"

\* sha256 of "{model_name}:{text}": the digest is an opaque value that is
\* determined by its preimage, and (no collisions) determines it
_generate_text_hash(text, model_name) == "sha256(" \o model_name \o ":" \o text \o ")"

\* The characters of the digest, for the substring and glob matching of
\* invalidate_cache: the leading characters of the sha256 hexdigest of
\* "{model_name}:{text}", of which the model keeps the first DigestLen.
HexPrefix(text_hash) ==
    CASE text_hash = "sha256(mock:a)" -> <<"3", "0", "b", "1", "1", "9", "8", "1">>
      [] text_hash = "sha256(mock:bb)" -> <<"f", "9", "7", "7", "6", "9", "8", "4">>
      [] text_hash = "sha256(mock:ccc)" -> <<"6", "1", "b", "e", "d", "d", "0", "a">>
      [] text_hash = "sha256(kobert:a)" -> <<"4", "0", "6", "d", "8", "2", "b", "4">>
      [] text_hash = "sha256(kobert:bb)" -> <<"5", "c", "f", "a", "b", "4", "a", "2">>
      [] text_hash = "sha256(kobert:ccc)" -> <<"b", "d", "c", "e", "a", "e", "e", "2">>
      [] text_hash = "sha256(roberta:a)" -> <<"3", "9", "4", "b", "6", "a", "5", "1">>
      [] text_hash = "sha256(roberta:bb)" -> <<"5", "2", "1", "7", "d", "8", "f", "d">>
      [] text_hash = "sha256(roberta:ccc)" -> <<"c", "7", "0", "4", "a", "0", "d", "d">>
      [] text_hash = "sha256(onnx_kobert:a)" -> <<"4", "2", "7", "9", "1", "1", "b", "8">>
      [] text_hash = "sha256(onnx_kobert:bb)" -> <<"e", "3", "8", "a", "3", "6", "b", "c">>
      [] text_hash = "sha256(onnx_kobert:ccc)" -> <<"5", "f", "1", "1", "f", "5", "0", "4">>
      [] text_hash = "sha256(onnx_roberta:a)" -> <<"a", "9", "a", "d", "9", "5", "3", "b">>
      [] text_hash = "sha256(onnx_roberta:bb)" -> <<"f", "3", "b", "5", "4", "0", "d", "f">>
      [] text_hash = "sha256(onnx_roberta:ccc)" -> <<"c", "f", "4", "f", "1", "e", "6", "d">>
      [] OTHER -> <<>>

HexDigest(text_hash) == SubSeq(HexPrefix(text_hash), 1, DigestLen)

\* text_pattern in key (line 482): the pattern is a substring of the digest
Contains(chars, text_pattern) ==
    \E i \in 0..(Len(chars) - Len(text_pattern)) :
        SubSeq(chars, i + 1, i + Len(text_pattern)) = text_pattern

\* the glob matching of redis KEYS: "*" matches any run of characters, "?"
\* any one character, every other character itself
RECURSIVE GlobMatch(_, _)
GlobMatch(pattern, chars) ==
    IF pattern = <<>> THEN chars = <<>>
    ELSE IF Head(pattern) = "*"
         THEN \/ GlobMatch(Tail(pattern), chars)
              \/ chars # <<>> /\ GlobMatch(pattern, Tail(chars))
    ELSE IF Head(pattern) = "?"
         THEN chars # <<>> /\ GlobMatch(Tail(pattern), Tail(chars))
    ELSE chars # <<>> /\ Head(chars) = Head(pattern)
            /\ GlobMatch(Tail(pattern), Tail(chars))

\* the characters of a redis key: the tokens of its prefix, then its digest
KeyChars(key) == SubSeq(key, 1, Len(key) - 1) \o HexDigest(key[Len(key)])

\* f"{config.redis_key_prefix}{text_hash}"
RedisKey(cfg, text_hash) == cache_configs[cfg].redis_key_prefix \o <<text_hash>>

\* redis KEYS with the pattern f"{config.redis_key_prefix}*"
GlobPrefix(key, prefix) ==
    Len(key) >= Len(prefix) /\ SubSeq(key, 1, Len(prefix)) = prefix

(* ------------------------------- codec -------------------------------- *)

\* asdict(embedding): the nine fields of CachedEmbedding
asdict(e) ==
    [text_hash |-> e.text_hash, model_name |-> e.model_name,
     embedding_vector |-> e.embedding_vector, dimension |-> e.dimension,
     norm |-> e.norm, created_at |-> e.created_at,
     access_count |-> e.access_count, last_accessed |-> e.last_accessed,
     compression_type |-> e.compression_type]

\* bytes are modelled by how they were produced: the serializer (json or
\* pickle), whether gzip was applied, and the serialized dict
_compress_embedding(e, compression) ==
    CASE compression = "none" -> [ser |-> "json", gz |-> FALSE, dict |-> asdict(e)]
      [] compression = "gzip" -> [ser |-> "json", gz |-> TRUE, dict |-> asdict(e)]
      [] compression = "pickle" -> [ser |-> "pickle", gz |-> FALSE, dict |-> asdict(e)]
      [] compression = "gzip_pickle" -> [ser |-> "pickle", gz |-> TRUE, dict |-> asdict(e)]
      [] OTHER -> [ser |-> "json", gz |-> FALSE, dict |-> asdict(e)]

\* Decodable for a decoder that looks at the bytes to find their format: it
\* accepts what any of the encoders wrote
Decodable_sniffing(data, compression) == data.ser \in {"json", "pickle"}

\* whether the decoder selected by `compression` accepts `data`:
\* gzip.decompress fails on bytes that are not gzip, json.loads on pickle
\* bytes or gzip bytes, pickle.loads on json or gzip bytes
Decodable(data, compression) ==
    CASE compression = "gzip" -> data.gz /\ data.ser = "json"
      [] compression = "pickle" -> ~data.gz /\ data.ser = "pickle"
      [] compression = "gzip_pickle" -> data.gz /\ data.ser = "pickle"
      [] OTHER -> ~data.gz /\ data.ser = "json"

\* CachedEmbedding(**embedding_dict), once the decoder selected by
\* `compression` has accepted the bytes
_decompress_embedding(data, compression) ==
    [text_hash |-> data.dict.text_hash, model_name |-> data.dict.model_name,
     embedding_vector |-> data.dict.embedding_vector, dimension |-> data.dict.dimension,
     norm |-> data.dict.norm, created_at |-> data.dict.created_at,
     access_count |-> data.dict.access_count, last_accessed |-> data.dict.last_accessed,
     compression_type |-> data.dict.compression_type]

(* ------------------- memory tier: cachetools.TTLCache ----------------- *)

\* A TTLCache is the sequence of its links in least-recently-used order
\* (the OrderedDict __links), each link [key, value, expires].

IndexOf(c, k) ==
    IF \E i \in 1..Len(c) : c[i].key = k
    THEN CHOOSE i \in 1..Len(c) : c[i].key = k
    ELSE 0

Without(c, i) == SubSeq(c, 1, i - 1) \o SubSeq(c, i + 1, Len(c))

\* TTLCache.expire(time): drop every link with not (time < link.expires)
RECURSIVE TTLExpire(_, _)
TTLExpire(c, time) ==
    IF c = <<>> THEN <<>>
    ELSE IF time < Head(c).expires
         THEN <<Head(c)>> \o TTLExpire(Tail(c), time)
         ELSE TTLExpire(Tail(c), time)

\* TTLCache.__contains__(key): present and self.timer() < link.expires
TTLContains(c, k, time) ==
    \E i \in 1..Len(c) : c[i].key = k /\ time < c[i].expires

\* Cache.get(key): the value, or None when the key is absent or expired
TTLGetValue(c, k, time) ==
    IF TTLContains(c, k, time) THEN c[IndexOf(c, k)].value ELSE None

\* TTLGetTouch without the move_to_end of __getlink: a get is no use
TTLGetTouch_noreorder(c, k, time) == c

\* the cache after Cache.get(key): __getitem__ moves a live key's link to the
\* most-recently-used end (__getlink), a miss changes nothing
TTLGetTouch(c, k, time) ==
    IF TTLContains(c, k, time)
    THEN LET i == IndexOf(c, k) IN Append(Without(c, i), c[i])
    ELSE c

\* Cache.__setitem__'s eviction loop: popitem() while the cache is full
RECURSIVE PopUntilFits(_, _)
PopUntilFits(c, maxsize) ==
    IF Len(c) + 1 > maxsize /\ Len(c) > 0 THEN PopUntilFits(Tail(c), maxsize) ELSE c

\* TTLCache.__setitem__(key, value): expire, evict the least recently used
\* links if the key is new, then (re)link the key at the end with a new expiry
TTLSetItem(c, k, v, time, maxsize, ttl) ==
    LET c1 == TTLExpire(c, time)
        i == IndexOf(c1, k)
        link == [key |-> k, value |-> v, expires |-> time + ttl]
    IN IF i > 0 THEN Append(Without(c1, i), link)
       ELSE Append(PopUntilFits(c1, maxsize), link)

\* len(cache) and cache.keys(): only what has not expired
TTLLen(c, time) == Len(TTLExpire(c, time))

TTLKeys(c, time) == {c[i].key : i \in {j \in 1..Len(c) : time < c[j].expires}}

(* ------------------------------- state -------------------------------- *)

VARIABLES
    now,            \* the clock: time.time(), the TTLCache timer, the redis server's clock
    strategy,       \* cache_configs[m].strategy, rewritten in place by _initialize_redis
    redis_client,   \* self.redis_client: None or the client
    init_pc,        \* where the task running _initialize_redis stands
    memory_caches,  \* self.memory_caches: model name -> TTLCache
    redis,          \* the redis server: key -> [data, expires]
    cache_stats,    \* self.cache_stats: model name -> CacheStats
    request_times,  \* self.request_times: model name -> list of batch durations
    last_cleanup,   \* self.last_cleanup
    tasks,          \* the coroutines of the callers, one per task slot
    ops,            \* number of service calls the callers still start
    scope,          \* the model names the callers of this run pass
    keep,           \* what a run records of a returned call besides its summary
    last_returned   \* the call that returned in the last step, if one did

vars == <<now, strategy, redis_client, init_pc, memory_caches, redis, cache_stats,
          request_times, last_cleanup, tasks, ops, scope, keep, last_returned>>

\* a task slot: the call it runs (op, model, items, results), the locals of the
\* coroutine (idx, hits, misses, start_time, payload, keys, todo, pattern), where it is
\* suspended (pc), what it returned (hits, misses, snapshot, exc), and records
\* of the run kept for the properties: probes (the tiers the call reached for
\* each item, or for each model of an invalidate, "promote" for a promotion,
\* "evict" for a store into a full memory cache,
\* "undecodable" for a payload that the decoder rejected, "deleted" for a
\* delete that redis acknowledged and "failed" for a redis call that raised),
\* held (whether the item was held by a tier of the strategy when its
\* lookup began), clean (nothing else ran since the call began and no redis
\* call failed) and after (the call that had just returned when this one began)
IdleTask ==
    [op |-> "none", pc |-> "idle", model |-> None,
     items |-> <<>>, results |-> <<>>, idx |-> 0, hits |-> <<>>, misses |-> <<>>,
     start_time |-> 0, payload |-> <<>>, keys |-> {}, todo |-> <<>>, pattern |-> None,
     snapshot |-> <<>>, exc |-> None,
     probes |-> <<>>, held |-> <<>>, clean |-> TRUE, after |-> <<>>]

\* hit_rate and avg_retrieval_time_ms are quotients: kept as numerator and denominator
Ratio(n, d) == [num |-> n, den |-> d]

Zero == Ratio(0, 1)

SameRatio(r, n, d) == r.num * d = n * r.den

\* _initialize_memory_caches: a TTLCache for each MEMORY_ONLY or HYBRID config,
\* CacheStats and request_times for every config
InitMemoryCaches ==
    [m \in {x \in Models : cache_configs[x].strategy \in {MEMORY_ONLY, HYBRID}} |-> <<>>]

InitCacheStats ==
    [m \in Models |->
        [model_name |-> m, total_requests |-> 0, cache_hits |-> 0, cache_misses |-> 0,
         hit_rate |-> Zero, avg_retrieval_time_ms |-> Zero, memory_usage_mb |-> 0,
         redis_usage_items |-> 0, eviction_count |-> 0, last_cleanup |-> 0]]

\* model names a caller passes; "unknown" is in no config
ModelNames == {"mock", "kobert", "onnx_kobert", "unknown"}

\* __init__: the state when the constructor returns; _initialize_redis is a
\* task that has been created and has not run yet
Init ==
    /\ now = 0
    /\ strategy = [m \in Models |-> cache_configs[m].strategy]
    /\ redis_client = None
    /\ init_pc = "created"
    /\ memory_caches = InitMemoryCaches
    /\ redis = <<>>
    /\ cache_stats = InitCacheStats
    /\ request_times = [m \in Models |-> <<>>]
    /\ last_cleanup = 0
    /\ tasks = [t \in Tasks |-> IdleTask]
    /\ ops \in 0..(MaxOps + LruOps + TimingWindow)
    /\ scope \in SUBSET ModelNames
    /\ keep \in SUBSET {"probes", "counts"}
    /\ last_returned = <<>>

(* ----------------------- the running coroutine ------------------------ *)

\* What one step of task t reads and writes besides the redis server: a step
\* starts from Ctx and the action stores the context it ends with.
Ctx ==
    [mem |-> memory_caches, stats |-> cache_stats, times |-> request_times,
     tasks |-> tasks, last_cleanup |-> last_cleanup]

\* an exception leaves the coroutine
Raise(c, t, exc) == [c EXCEPT !.tasks[t].pc = "raised", !.tasks[t].exc = exc]

InFlight(tk) == tk.pc \notin {"idle", "done", "raised"}

\* A CachedEmbedding is a mutable object, and a hits list holds references.
\* An entry of a hits list is [e, live]: live says that the entry is the very
\* object the memory cache of the model holds under e.text_hash.  A returned
\* list is what the caller saw at the return.

\* the object held under (model_name, k) is replaced: the references to the
\* old one are not references to the new one
Unlink(c, model_name, k) ==
    [c EXCEPT !.tasks =
        [u \in Tasks |->
            IF InFlight(c.tasks[u]) /\ c.tasks[u].model = model_name
            THEN [c.tasks[u] EXCEPT !.hits =
                    [i \in 1..Len(c.tasks[u].hits) |->
                        IF c.tasks[u].hits[i].e.text_hash = k
                        THEN [c.tasks[u].hits[i] EXCEPT !.live = FALSE]
                        ELSE c.tasks[u].hits[i]]]
            ELSE c.tasks[u]]]

\* the object held under (model_name, k) gets the field values e, which
\* every holder of a reference sees
MutateObject(c, model_name, k, e) ==
    [c EXCEPT
        !.mem[model_name] =
            [i \in 1..Len(c.mem[model_name]) |->
                IF c.mem[model_name][i].key = k
                THEN [c.mem[model_name][i] EXCEPT !.value = e]
                ELSE c.mem[model_name][i]],
        !.tasks =
            [u \in Tasks |->
                IF InFlight(c.tasks[u]) /\ c.tasks[u].model = model_name
                THEN [c.tasks[u] EXCEPT !.hits =
                        [i \in 1..Len(c.tasks[u].hits) |->
                            IF c.tasks[u].hits[i].live /\ c.tasks[u].hits[i].e.text_hash = k
                            THEN [c.tasks[u].hits[i] EXCEPT !.e = e]
                            ELSE c.tasks[u].hits[i]]]
                ELSE c.tasks[u]]]

\* MemoryPut with the assignment left out: the memory cache is not written
MemoryPut_dropped(c, model_name, k, e) == c

\* self.memory_caches[model_name][text_hash] = embedding
MemoryPut(c, model_name, k, e) ==
    [Unlink(c, model_name, k) EXCEPT
        !.mem[model_name] =
            TTLSetItem(@, k, e, now, cache_configs[model_name].max_memory_items,
                       cache_configs[model_name].ttl_seconds)]

\* UsesMemory with the HYBRID strategy left out of the guard of lines 271 and 300
UsesMemory_memoryonly(c, model_name) ==
    /\ strategy[ConfigOf(model_name)] = MEMORY_ONLY
    /\ model_name \in DOMAIN c.mem

UsesMemory(c, model_name) ==
    /\ strategy[ConfigOf(model_name)] \in MemoryStrategies
    /\ model_name \in DOMAIN c.mem

UsesRedis(model_name) ==
    /\ strategy[ConfigOf(model_name)] \in RedisStrategies
    /\ redis_client # None

\* the redis server holds a payload under the key
RedisHolds(key) == key \in DOMAIN redis /\ now < redis[key].expires

\* whether a tier that the model's strategy reads holds a decodable entry
Held(c, model_name, text_hash) ==
    \/ UsesMemory(c, model_name) /\ TTLContains(c.mem[model_name], text_hash, now)
    \/ /\ UsesRedis(model_name)
       /\ RedisHolds(RedisKey(ConfigOf(model_name), text_hash))
       /\ Decodable(redis[RedisKey(ConfigOf(model_name), text_hash)].data,
                    cache_configs[ConfigOf(model_name)].compression)

(* ----------------------- get_cached_embeddings ------------------------ *)

\* LookupHit with line 223 left out: total_requests is not incremented
LookupHit_untallied(c, t, e, in_memory) ==
    LET m == c.tasks[t].model
        e2 == [e EXCEPT !.access_count = @ + 1, !.last_accessed = now]
        c1 == IF in_memory
              THEN MutateObject(
                       [c EXCEPT !.tasks[t].hits = Append(@, [e |-> e, live |-> TRUE])],
                       m, e.text_hash, e2)
              ELSE [c EXCEPT !.tasks[t].hits = Append(@, [e |-> e2, live |-> FALSE])]
    IN IF m \notin DOMAIN c1.stats THEN Raise(c1, t, "KeyError")
       ELSE [c1 EXCEPT !.stats[m].cache_hits = @ + 1,
                       !.tasks[t].idx = @ + 1]

\* lines 213-218 and 223: the item is a hit; in_memory says that e is the
\* object the memory cache holds
LookupHit(c, t, e, in_memory) ==
    LET m == c.tasks[t].model
        e2 == [e EXCEPT !.access_count = @ + 1, !.last_accessed = now]
        c1 == IF in_memory
              THEN MutateObject(
                       [c EXCEPT !.tasks[t].hits = Append(@, [e |-> e, live |-> TRUE])],
                       m, e.text_hash, e2)
              ELSE [c EXCEPT !.tasks[t].hits = Append(@, [e |-> e2, live |-> FALSE])]
    IN IF m \notin DOMAIN c1.stats THEN Raise(c1, t, "KeyError")
       ELSE [c1 EXCEPT !.stats[m].cache_hits = @ + 1,
                       !.stats[m].total_requests = @ + 1,
                       !.tasks[t].idx = @ + 1]

\* lines 219-223: the item is a miss
LookupMiss(c, t) ==
    LET m == c.tasks[t].model
        tk == c.tasks[t]
        c1 == [c EXCEPT !.tasks[t].misses = Append(@, tk.items[tk.idx])]
    IN IF m \notin DOMAIN c1.stats THEN Raise(c1, t, "KeyError")
       ELSE [c1 EXCEPT !.stats[m].cache_misses = @ + 1,
                       !.stats[m].total_requests = @ + 1,
                       !.tasks[t].idx = @ + 1]

RECURSIVE SumSeq(_)
SumSeq(s) == IF s = <<>> THEN 0 ELSE Head(s) + SumSeq(Tail(s))

LastN(s, n) == IF Len(s) <= n THEN s ELSE SubSeq(s, Len(s) - n + 1, Len(s))

Min(a, b) == IF a < b THEN a ELSE b

\* lines 225-240: the statistics of the batch, and the return
LookupFinish(c, t) ==
    LET m == c.tasks[t].model
        retrieval_time == now - c.tasks[t].start_time
    IN IF m \notin DOMAIN c.times THEN Raise(c, t, "KeyError")
       ELSE LET times == Append(c.times[m], retrieval_time)
                st == c.stats[m]
            IN [c EXCEPT
                    !.times[m] = times,
                    !.stats[m].hit_rate =
                        IF st.total_requests > 0
                        THEN Ratio(st.cache_hits, st.total_requests) ELSE Zero,
                    !.stats[m].avg_retrieval_time_ms =
                        Ratio(SumSeq(LastN(times, TimingWindow)),
                              Min(TimingWindow, Len(times))),
                    !.tasks[t].pc = "done"]

\* lines 209-211 and 267-280: the loop over the items, up to the next redis
\* get (the coroutine is suspended), the return or an exception
RECURSIVE LookupLoop(_, _)
LookupLoop(c, t) ==
    LET tk == c.tasks[t] IN
    IF tk.pc # "run" THEN c
    ELSE IF tk.idx > Len(tk.items) THEN LookupFinish(c, t)
    ELSE
        LET m == tk.model
            h == _generate_text_hash(tk.items[tk.idx].text, m)
            mem_probe == UsesMemory(c, m)
            mem_hit == mem_probe /\ TTLContains(c.mem[m], h, now)
            c1 == [c EXCEPT
                    !.tasks[t].held = Append(@, Held(c, m, h)),
                    !.tasks[t].probes =
                        Append(@, IF mem_probe THEN <<"memory">> ELSE <<>>)]
        IN IF mem_hit
           THEN LookupLoop(
                    LookupHit([c1 EXCEPT !.mem[m] = TTLGetTouch(@, h, now)],
                              t, TTLGetValue(c.mem[m], h, now), TRUE), t)
           ELSE IF UsesRedis(m)
           THEN [c1 EXCEPT !.tasks[t].pc = "await_get",
                           !.tasks[t].probes[tk.idx] = Append(@, "remote")]
           ELSE LookupLoop(LookupMiss(c1, t), t)

\* LookupResumed without the try of lines 277-292: the exception of the
\* redis get or of _decompress_embedding leaves _get_from_cache
LookupResumed_unguarded(c, t, outcome) ==
    LET tk == c.tasks[t]
        m == tk.model
        cfg == ConfigOf(m)
        h == _generate_text_hash(tk.items[tk.idx].text, m)
        key == RedisKey(cfg, h)
        undecodable == RedisHolds(key)
                       /\ ~Decodable(redis[key].data, cache_configs[cfg].compression)
        c0 == [c EXCEPT !.tasks[t].pc = "run",
                        !.tasks[t].clean = @ /\ outcome = "ok",
                        !.tasks[t].probes[tk.idx] =
                            IF outcome # "ok" THEN Append(@, "failed")
                            ELSE IF undecodable THEN Append(@, "undecodable")
                            ELSE @]
    IN IF outcome # "ok" THEN Raise(c0, t, "ConnectionError")
       ELSE IF undecodable THEN Raise(c0, t, "DecodeError")
       ELSE IF RedisHolds(key)
               /\ Decodable(redis[key].data, cache_configs[cfg].compression)
       THEN LET e == _decompress_embedding(redis[key].data,
                                           cache_configs[cfg].compression)
                promote == strategy[cfg] = HYBRID /\ m \in DOMAIN c0.mem
                c1 == IF promote
                      THEN [MemoryPut(c0, m, h, e) EXCEPT
                                !.tasks[t].probes[tk.idx] = Append(@, "promote")]
                      ELSE c0
            IN LookupLoop(LookupHit(c1, t, e, promote), t)
       ELSE LookupLoop(LookupMiss(c0, t), t)

\* lines 280-292: the answer of the redis get
\* ("ok": the server answered; "fail": the call raised and the except clause
\* swallowed it), then the rest of the loop; a payload that
\* _decompress_embedding rejects raises inside the same try
LookupResumed(c, t, outcome) ==
    LET tk == c.tasks[t]
        m == tk.model
        cfg == ConfigOf(m)
        h == _generate_text_hash(tk.items[tk.idx].text, m)
        key == RedisKey(cfg, h)
        c0 == [c EXCEPT !.tasks[t].pc = "run",
                        !.tasks[t].clean = @ /\ outcome = "ok",
                        !.tasks[t].probes[tk.idx] =
                            IF outcome # "ok" THEN Append(@, "failed")
                            ELSE IF RedisHolds(key)
                                    /\ ~Decodable(redis[key].data,
                                                  cache_configs[cfg].compression)
                            THEN Append(@, "undecodable")
                            ELSE @]
    IN IF outcome = "ok" /\ RedisHolds(key)
          /\ Decodable(redis[key].data, cache_configs[cfg].compression)
       THEN LET e == _decompress_embedding(redis[key].data,
                                           cache_configs[cfg].compression)
                promote == strategy[cfg] = HYBRID /\ m \in DOMAIN c0.mem
                c1 == IF promote
                      THEN [MemoryPut(c0, m, h, e) EXCEPT
                                !.tasks[t].probes[tk.idx] = Append(@, "promote")]
                      ELSE c0
            IN LookupLoop(LookupHit(c1, t, e, promote), t)
       ELSE LookupLoop(LookupMiss(c0, t), t)

(* -------------------------- store_embeddings -------------------------- *)

\* lines 251-261: the CachedEmbedding built for one item
NewEmbedding(text_hash, model_name, result) ==
    [text_hash |-> text_hash, model_name |-> model_name,
     embedding_vector |-> result.vector, dimension |-> Len(result.vector),
     norm |-> result.norm, created_at |-> now, access_count |-> 1,
     last_accessed |-> now,
     compression_type |-> cache_configs[ConfigOf(model_name)].compression]

\* lines 248-263 and 296-309: the loop over the pairs, up to the next redis
\* setex or the return
RECURSIVE StoreLoop(_, _)
StoreLoop(c, t) ==
    LET tk == c.tasks[t] IN
    IF tk.pc # "run" THEN c
    ELSE IF tk.idx > Len(tk.items) THEN [c EXCEPT !.tasks[t].pc = "done"]
    ELSE
        LET m == tk.model
            cfg == ConfigOf(m)
            h == _generate_text_hash(tk.items[tk.idx].text, m)
            e == NewEmbedding(h, m, tk.results[tk.idx])
            evicts == /\ UsesMemory(c, m)
                      /\ ~TTLContains(c.mem[m], h, now)
                      /\ TTLLen(c.mem[m], now) >= cache_configs[m].max_memory_items
            c0 == [c EXCEPT !.tasks[t].probes =
                        Append(@, IF evicts THEN <<"memory", "evict">>
                                  ELSE IF UsesMemory(c, m) THEN <<"memory">>
                                  ELSE <<>>)]
            c1 == IF UsesMemory(c, m) THEN MemoryPut(c0, m, h, e) ELSE c0
        IN IF UsesRedis(m)
           THEN [c1 EXCEPT !.tasks[t].pc = "await_setex",
                           !.tasks[t].probes[tk.idx] = Append(@, "remote"),
                           !.tasks[t].payload =
                               <<_compress_embedding(e, cache_configs[cfg].compression)>>]
           ELSE StoreLoop([c1 EXCEPT !.tasks[t].idx = @ + 1], t)

\* lines 309-316: the answer of the redis setex, then the rest of the loop
StoreResumed(c, t, outcome) ==
    StoreLoop([c EXCEPT !.tasks[t].pc = "run",
                        !.tasks[t].payload = <<>>,
                        !.tasks[t].idx = @ + 1,
                        !.tasks[t].clean = @ /\ outcome = "ok",
                        !.tasks[t].probes[c.tasks[t].idx] =
                            IF outcome = "ok" THEN @ ELSE Append(@, "failed")], t)

\* redis SETEX key ttl data
RedisSetex(key, ttl, data) ==
    [k \in DOMAIN redis \cup {key} |->
        IF k = key THEN [data |-> data, expires |-> now + ttl] ELSE redis[k]]

(* ----------------------- cleanup_expired_cache ------------------------ *)

\* redis KEYS f"{prefix}*"
RedisKeys(prefix) == {k \in DOMAIN redis : now < redis[k].expires /\ GlobPrefix(k, prefix)}

\* redis KEYS f"{prefix}*{text_pattern}*"
RedisKeysMatching(prefix, text_pattern) ==
    {k \in DOMAIN redis :
        /\ now < redis[k].expires
        /\ GlobMatch(prefix \o <<"*">> \o text_pattern \o <<"*">>, KeyChars(k))}

\* "if text_pattern:": None and the empty string select no pattern
HasPattern(tk) == tk.pattern # None /\ tk.pattern # <<>>

\* lines 482-484: the memory cache without the unexpired entries whose key
\* contains text_pattern
RECURSIVE MemoryRemoveMatching(_, _)
MemoryRemoveMatching(cache, text_pattern) ==
    IF cache = <<>> THEN <<>>
    ELSE IF now < Head(cache).expires /\ Contains(HexDigest(Head(cache).key), text_pattern)
         THEN MemoryRemoveMatching(Tail(cache), text_pattern)
         ELSE <<Head(cache)>> \o MemoryRemoveMatching(Tail(cache), text_pattern)

\* lines 407-420: the memory part of the loop body for one model; len(cache)
\* expires the cache, so old_size and new_size are read at the same time
CleanupMemory(c, m) ==
    IF m \in DOMAIN c.mem
    THEN LET cache == TTLExpire(c.mem[m], now)
             old_size == Len(cache)
             new_size == Len(cache)
         IN [c EXCEPT !.mem[m] = cache,
                      !.stats[m].eviction_count = @ + (old_size - new_size),
                      !.stats[m].memory_usage_mb = new_size]
    ELSE c

\* get_cache_statistics, lines 440-465: the snapshot returned
StatsSnapshot(c) ==
    [redis_available |-> redis_client # None, last_cleanup |-> c.last_cleanup,
     by_model |-> c.stats, strategy |-> strategy]

StatsReturn(c, t) ==
    [c EXCEPT !.tasks[t].pc = "done", !.tasks[t].snapshot = <<StatsSnapshot(c)>>]

\* lines 407-433: the loop over the configs, up to the next redis keys or the
\* end of the cleanup, which get_cache_statistics follows with its snapshot
RECURSIVE CleanupLoop(_, _)
CleanupLoop(c, t) ==
    LET tk == c.tasks[t] IN
    IF tk.idx > Len(ModelOrder)
    THEN StatsReturn([c EXCEPT !.last_cleanup = tk.start_time], t)
    ELSE LET m == ModelOrder[tk.idx]
             c1 == CleanupMemory(c, m)
         IN IF redis_client # None /\ strategy[m] \in RedisStrategies
            THEN [c1 EXCEPT !.tasks[t].pc = "await_keys"]
            ELSE CleanupLoop([c1 EXCEPT !.stats[m].last_cleanup = tk.start_time,
                                        !.tasks[t].idx = @ + 1], t)

\* lines 426-431: the answer of the redis keys, then the rest of the loop
CleanupResumed(c, t, outcome) ==
    LET tk == c.tasks[t]
        m == ModelOrder[tk.idx]
        c1 == IF outcome = "ok"
              THEN [c EXCEPT !.stats[m].redis_usage_items =
                                Cardinality(RedisKeys(cache_configs[m].redis_key_prefix))]
              ELSE c
    IN CleanupLoop([c1 EXCEPT !.stats[m].last_cleanup = tk.start_time,
                              !.tasks[t].idx = @ + 1,
                              !.tasks[t].pc = "run",
                              !.tasks[t].clean = @ /\ outcome = "ok"], t)

\* lines 399-403 and 438: the rate limit, then the cleanup or the snapshot
StatsBegin(c, t) ==
    IF now - c.last_cleanup < CleanupInterval THEN StatsReturn(c, t)
    ELSE CleanupLoop(c, t)

(* -------------------------- invalidate_cache -------------------------- *)

\* lines 475-496: the loop over models_to_clear, up to the next redis keys or
\* the return; the memory cache of the model is cleared, or the entries that
\* match text_pattern are deleted from it, before the await
RECURSIVE InvalidateLoop(_, _)
InvalidateLoop(c, t) ==
    LET tk == c.tasks[t] IN
    IF tk.idx > Len(tk.todo) THEN [c EXCEPT !.tasks[t].pc = "done"]
    ELSE LET m == tk.todo[tk.idx]
             c0 == [c EXCEPT !.tasks[t].probes =
                        Append(@, IF m \in DOMAIN c.mem THEN <<"memory">> ELSE <<>>)]
             c1 == IF m \notin DOMAIN c.mem THEN c0
                   ELSE IF HasPattern(tk)
                   THEN [c0 EXCEPT !.mem[m] = MemoryRemoveMatching(@, tk.pattern)]
                   ELSE [c0 EXCEPT !.mem[m] = <<>>]
         IN IF redis_client # None
            THEN [c1 EXCEPT !.tasks[t].pc = "await_keys",
                            !.tasks[t].probes[tk.idx] = Append(@, "remote")]
            ELSE InvalidateLoop([c1 EXCEPT !.tasks[t].idx = @ + 1], t)

\* InvalidateKeysResumed with the pattern "*" in place of the prefix of the model
InvalidateKeysResumed_anykey(c, t, outcome) ==
    LET tk == c.tasks[t]
        keys == RedisKeys(<<>>)
        c0 == [c EXCEPT !.tasks[t].clean = @ /\ outcome = "ok",
                        !.tasks[t].probes[tk.idx] =
                            IF outcome = "ok" THEN @ ELSE Append(@, "failed")]
    IN IF outcome = "ok" /\ keys # {}
       THEN [c0 EXCEPT !.tasks[t].pc = "await_delete", !.tasks[t].keys = keys]
       ELSE InvalidateLoop([c0 EXCEPT !.tasks[t].pc = "run",
                                      !.tasks[t].idx = @ + 1], t)

\* lines 496-501: the answer of the redis keys: a delete of the keys found,
\* or the next model when there are none or the call raised
InvalidateKeysResumed(c, t, outcome) ==
    LET tk == c.tasks[t]
        prefix == cache_configs[tk.todo[tk.idx]].redis_key_prefix
        keys == IF HasPattern(tk) THEN RedisKeysMatching(prefix, tk.pattern)
                ELSE RedisKeys(prefix)
        c0 == [c EXCEPT !.tasks[t].clean = @ /\ outcome = "ok",
                        !.tasks[t].probes[tk.idx] =
                            IF outcome = "ok" THEN @ ELSE Append(@, "failed")]
    IN IF outcome = "ok" /\ keys # {}
       THEN [c0 EXCEPT !.tasks[t].pc = "await_delete", !.tasks[t].keys = keys]
       ELSE InvalidateLoop([c0 EXCEPT !.tasks[t].pc = "run",
                                      !.tasks[t].idx = @ + 1], t)

\* lines 498-501: the answer of the redis delete, then the next model
InvalidateDeleteResumed(c, t, outcome) ==
    InvalidateLoop([c EXCEPT !.tasks[t].pc = "run",
                             !.tasks[t].keys = {},
                             !.tasks[t].idx = @ + 1,
                             !.tasks[t].clean = @ /\ outcome = "ok",
                             !.tasks[t].probes[c.tasks[t].idx] =
                                Append(@, IF outcome = "ok" THEN "deleted" ELSE "failed")],
                   t)

\* RedisDelete when the server drops the command: no key is removed
RedisDelete_nothing(keys) == redis

\* redis DEL key [key ...]
RedisDelete(keys) == [k \in DOMAIN redis \ keys |-> redis[k]]

(* ------------------------------ actions ------------------------------- *)

\* the embedding producer of the caller: the vector and norm of a text under
\* a model
Compute(text, model_name) ==
    [vector |-> <<Len(model_name), Len(text)>>, norm |-> Len(model_name) + Len(text)]

\* the batches a caller passes: items with an id and a text
Batches == UNION {[1..n -> Texts] : n \in 1..MaxBatch}

ItemsOf(b) == [i \in 1..Len(b) |-> [id |-> i, text |-> b[i]]]

Outcomes == {"ok", "fail"}

\* every other call has seen something run since it began
Disturb(ts, t) ==
    [u \in Tasks |-> IF u = t THEN ts[u] ELSE [ts[u] EXCEPT !.clean = FALSE]]

\* what the properties keep of a call that returned: its arguments, whether
\* it ran clean and when it returned and, in the runs that record them, its
\* probes and the access_count of each hit it returned
Summary(tk) ==
    [op |-> tk.op, model |-> tk.model, items |-> tk.items, clean |-> tk.clean,
     time |-> now,
     probes |-> IF "probes" \in keep THEN tk.probes ELSE <<>>,
     counts |-> IF "counts" \in keep
                THEN [j \in 1..Len(tk.hits) |->
                        [text_hash |-> tk.hits[j].e.text_hash,
                         access_count |-> tk.hits[j].e.access_count]]
                ELSE <<>>]

Commit(c, t) ==
    /\ memory_caches' = c.mem
    /\ cache_stats' = c.stats
    /\ request_times' = c.times
    /\ last_cleanup' = c.last_cleanup
    /\ tasks' = Disturb(c.tasks, t)
    /\ scope' = scope
    /\ keep' = keep
    /\ last_returned' = IF c.tasks[t].pc = "done" THEN <<Summary(c.tasks[t])>> ELSE <<>>

\* a returned call is handed to its caller before anything else runs
Returned(t) == tasks[t].pc \in {"done", "raised"}

Quiet == \A t \in Tasks : ~Returned(t)

\* task slots are interchangeable: a call takes the first slot that is idle
Free(t) ==
    /\ Quiet
    /\ tasks[t].pc = "idle"
    /\ \A u \in Tasks : u < t => tasks[u].pc # "idle"

BeginCall(t, op, model_name) ==
    [Ctx EXCEPT !.tasks[t] =
        [IdleTask EXCEPT !.op = op, !.pc = "run", !.model = model_name,
                         !.idx = 1, !.start_time = now, !.after = last_returned]]

\* the caller takes the result: the slot is idle again
Return(t) ==
    /\ Returned(t)
    /\ tasks' = [tasks EXCEPT ![t] = IdleTask]
    /\ UNCHANGED <<now, strategy, redis_client, init_pc, memory_caches, redis,
                   cache_stats, request_times, last_cleanup, ops, scope, keep,
                   last_returned>>

\* a caller awaits get_cached_embeddings(text_items, model_name)
Lookup(t, model_name, b) ==
    /\ Free(t)
    /\ ops > 0
    /\ ops' = ops - 1
    /\ Commit(LookupLoop([BeginCall(t, "lookup", model_name)
                            EXCEPT !.tasks[t].items = ItemsOf(b)], t), t)
    /\ UNCHANGED <<now, strategy, redis_client, init_pc, redis>>

\* LookupResume with the except clause of lines 291-292 dropping the client,
\* as the except clause of the startup ping does
LookupResume_downgrades(t, outcome) ==
    /\ Quiet
    /\ tasks[t].op = "lookup"
    /\ tasks[t].pc = "await_get"
    /\ Commit(LookupResumed(Ctx, t, outcome), t)
    /\ redis_client' = IF outcome = "ok" THEN redis_client ELSE None
    /\ UNCHANGED <<now, strategy, init_pc, redis, ops>>

\* the redis get of a suspended lookup answers or fails
LookupResume(t, outcome) ==
    /\ Quiet
    /\ tasks[t].op = "lookup"
    /\ tasks[t].pc = "await_get"
    /\ Commit(LookupResumed(Ctx, t, outcome), t)
    /\ UNCHANGED <<now, strategy, redis_client, init_pc, redis, ops>>

\* a caller awaits store_embeddings(text_items, embedding_results, model_name)
Store(t, model_name, b) ==
    /\ Free(t)
    /\ ops > 0
    /\ ops' = ops - 1
    /\ Commit(StoreLoop([BeginCall(t, "store", model_name)
                            EXCEPT !.tasks[t].items = ItemsOf(b),
                                   !.tasks[t].results =
                                       [i \in 1..Len(b) |-> Compute(b[i], model_name)]],
                        t), t)
    /\ UNCHANGED <<now, strategy, redis_client, init_pc, redis>>

\* the redis setex of a suspended store answers or fails
StoreResume(t, outcome) ==
    /\ Quiet
    /\ tasks[t].op = "store"
    /\ tasks[t].pc = "await_setex"
    /\ LET tk == tasks[t]
           cfg == ConfigOf(tk.model)
           key == RedisKey(cfg, _generate_text_hash(tk.items[tk.idx].text, tk.model))
       IN redis' = IF outcome = "ok"
                   THEN RedisSetex(key, cache_configs[cfg].ttl_seconds, tk.payload[1])
                   ELSE redis
    /\ Commit(StoreResumed(Ctx, t, outcome), t)
    /\ UNCHANGED <<now, strategy, redis_client, init_pc, ops>>

\* a caller awaits get_cache_statistics()
GetStatistics(t) ==
    /\ Free(t)
    /\ ops > 0
    /\ ops' = ops - 1
    /\ Commit(StatsBegin(BeginCall(t, "stats", None), t), t)
    /\ UNCHANGED <<now, strategy, redis_client, init_pc, redis>>

\* the redis keys of a suspended cleanup answers or fails
CleanupResume(t, outcome) ==
    /\ Quiet
    /\ tasks[t].op = "stats"
    /\ tasks[t].pc = "await_keys"
    /\ Commit(CleanupResumed(Ctx, t, outcome), t)
    /\ UNCHANGED <<now, strategy, redis_client, init_pc, redis, ops>>

\* "if model_name" (lines 470 and 473): None and the empty string are false
Truthy(model_name) == model_name \notin {None, ""}

\* a caller awaits invalidate_cache(model_name) or invalidate_cache()
\* (model_name None); lines 470-473
Invalidate(t, model_name) ==
    /\ Free(t)
    /\ ops > 0
    /\ ops' = ops - 1
    /\ LET c == BeginCall(t, "invalidate", model_name)
       IN IF Truthy(model_name) /\ model_name \notin Models
          THEN Commit(Raise(c, t, "ValueError"), t)
          ELSE Commit(InvalidateLoop(
                        [c EXCEPT !.tasks[t].todo =
                            IF Truthy(model_name) THEN <<model_name>> ELSE ModelOrder],
                        t), t)
    /\ UNCHANGED <<now, strategy, redis_client, init_pc, redis>>

\* a caller awaits invalidate_cache(model_name, text_pattern)
InvalidatePattern(t, model_name, text_pattern) ==
    /\ Free(t)
    /\ ops > 0
    /\ ops' = ops - 1
    /\ LET c == [BeginCall(t, "invalidate", model_name)
                    EXCEPT !.tasks[t].pattern = text_pattern]
       IN IF Truthy(model_name) /\ model_name \notin Models
          THEN Commit(Raise(c, t, "ValueError"), t)
          ELSE Commit(InvalidateLoop(
                        [c EXCEPT !.tasks[t].todo =
                            IF Truthy(model_name) THEN <<model_name>> ELSE ModelOrder],
                        t), t)
    /\ UNCHANGED <<now, strategy, redis_client, init_pc, redis>>

\* the redis keys of a suspended invalidate answers or fails
InvalidateKeysResume(t, outcome) ==
    /\ Quiet
    /\ tasks[t].op = "invalidate"
    /\ tasks[t].pc = "await_keys"
    /\ Commit(InvalidateKeysResumed(Ctx, t, outcome), t)
    /\ UNCHANGED <<now, strategy, redis_client, init_pc, redis, ops>>

\* the redis delete of a suspended invalidate answers or fails
InvalidateDeleteResume(t, outcome) ==
    /\ Quiet
    /\ tasks[t].op = "invalidate"
    /\ tasks[t].pc = "await_delete"
    /\ redis' = IF outcome = "ok" THEN RedisDelete(tasks[t].keys) ELSE redis
    /\ Commit(InvalidateDeleteResumed(Ctx, t, outcome), t)
    /\ UNCHANGED <<now, strategy, redis_client, init_pc, ops>>

\* what a step of the environment leaves alone
Environment ==
    /\ tasks' = Disturb(tasks, 0)
    /\ last_returned' = <<>>
    /\ UNCHANGED <<memory_caches, cache_stats, request_times, last_cleanup, ops, scope,
                   keep>>

\* _initialize_redis, lines 184-188: the client is created and the ping sent
InitRedisConnect ==
    /\ Quiet
    /\ init_pc = "created"
    /\ init_pc' = "ping"
    /\ redis_client' = "client"
    /\ Environment
    /\ UNCHANGED <<now, strategy, redis>>

\* line 189: the ping answered
InitRedisPingOk ==
    /\ Quiet
    /\ init_pc = "ping"
    /\ init_pc' = "done"
    /\ Environment
    /\ UNCHANGED <<now, strategy, redis_client, redis>>

\* InitRedisPingFail without the loop of lines 196-198: the client is dropped
\* and the configs keep their strategy
InitRedisPingFail_keepstrategy ==
    /\ Quiet
    /\ init_pc = "ping"
    /\ init_pc' = "done"
    /\ redis_client' = None
    /\ Environment
    /\ UNCHANGED <<now, strategy, redis>>

\* lines 191-198: the ping raised; every config that uses redis becomes MEMORY_ONLY
InitRedisPingFail ==
    /\ Quiet
    /\ init_pc = "ping"
    /\ init_pc' = "done"
    /\ redis_client' = None
    /\ strategy' = [m \in Models |->
                        IF strategy[m] \in {REDIS_ONLY, HYBRID, PERSISTENT}
                        THEN MEMORY_ONLY ELSE strategy[m]]
    /\ Environment
    /\ UNCHANGED <<now, redis>>

\* Another writer of the shared redis server (a deployment configured with
\* another compression) sets the key of (model_name, text): the payload is
\* one that the decoder of this service's config rejects.
RedisForeignWrite(model_name, text, compression) ==
    /\ Quiet
    /\ model_name \in Models
    /\ LET h == _generate_text_hash(text, model_name)
           data == _compress_embedding(
                       NewEmbedding(h, model_name, Compute(text, model_name)), compression)
       IN /\ ~Decodable(data, cache_configs[model_name].compression)
          /\ redis' = RedisSetex(RedisKey(model_name, h),
                                 cache_configs[model_name].ttl_seconds, data)
    /\ Environment
    /\ UNCHANGED <<now, strategy, redis_client, init_pc>>

\* a second passes; the redis server drops the keys whose ttl has run out
Tick ==
    /\ Quiet
    /\ now < MaxTime
    /\ now' = now + 1
    /\ redis' = [k \in {x \in DOMAIN redis : now + 1 < redis[x].expires} |-> redis[k]]
    /\ Environment
    /\ UNCHANGED <<strategy, redis_client, init_pc>>

\* a second passes while no call is running
TickBetweenCalls ==
    /\ \A t \in Tasks : tasks[t].pc = "idle"
    /\ Tick

(* --------------------------- specifications -------------------------- *)

Singles == {{m} : m \in ModelNames}

\* One caller at a time, one model name, SeqOps calls: every call returns
\* before the next one begins, and time passes between and during the calls.
InitSeq == Init /\ scope \in Singles /\ ops = SeqOps /\ keep = {}

NextSeq ==
    \/ Return(1)
    \/ \E m \in scope, b \in Batches : Lookup(1, m, b)
    \/ \E o \in Outcomes : LookupResume(1, o)
    \/ \E m \in scope, b \in Batches : Store(1, m, b)
    \/ \E o \in Outcomes : StoreResume(1, o)
    \/ InitRedisConnect
    \/ InitRedisPingOk
    \/ InitRedisPingFail
    \/ Tick

SpecSeq == InitSeq /\ [][NextSeq]_vars

\* Two callers whose calls interleave at the awaits on redis, for the models
\* whose configured strategy reaches redis; stores of one item, no time passes.
InitConc == Init /\ scope \in {{"kobert"}, {"onnx_kobert"}} /\ ops = MaxOps /\ keep = {}

NextConc ==
    \/ \E t \in Tasks : Return(t)
    \/ \E t \in Tasks, m \in scope, b \in Batches : Lookup(t, m, b)
    \/ \E t \in Tasks, o \in Outcomes : LookupResume(t, o)
    \/ \E t \in Tasks, m \in scope, x \in Texts : Store(t, m, <<x>>)
    \/ \E t \in Tasks, o \in Outcomes : StoreResume(t, o)
    \/ \E t \in Tasks : GetStatistics(t)
    \/ InitRedisConnect
    \/ InitRedisPingOk
    \/ InitRedisPingFail

SpecConc == InitConc /\ [][NextConc]_vars

\* One caller of a HYBRID model over a redis that answers every call at once:
\* time passes between the calls.
InitTTL == Init /\ scope = {"kobert"} /\ ops = MaxOps /\ keep = {"probes", "counts"}

NextTTL ==
    \/ Return(1)
    \/ \E m \in scope, b \in Batches : Lookup(1, m, b)
    \/ LookupResume(1, "ok")
    \/ \E m \in scope, b \in Batches : Store(1, m, b)
    \/ StoreResume(1, "ok")
    \/ InitRedisConnect
    \/ InitRedisPingOk
    \/ TickBetweenCalls

SpecTTL == InitTTL /\ [][NextTTL]_vars

\* One caller that passes two model names and also invalidates, one model or
\* all of them; no time passes.
InitInv ==
    /\ Init
    /\ scope \in {{"mock", "kobert"}, {"kobert", "onnx_kobert"}}
    /\ ops = MaxOps
    /\ keep = {}

NextInv ==
    \/ Return(1)
    \/ \E m \in scope, b \in Batches : Lookup(1, m, b)
    \/ \E o \in Outcomes : LookupResume(1, o)
    \/ \E m \in scope, b \in Batches : Store(1, m, b)
    \/ \E o \in Outcomes : StoreResume(1, o)
    \/ \E m \in scope \cup {None} : Invalidate(1, m)
    \/ \E o \in Outcomes : InvalidateKeysResume(1, o)
    \/ \E o \in Outcomes : InvalidateDeleteResume(1, o)
    \/ InitRedisConnect
    \/ InitRedisPingOk
    \/ InitRedisPingFail

SpecInv == InitInv /\ [][NextInv]_vars

\* One caller of a MEMORY_ONLY model or of a HYBRID model over a redis that is
\* unreachable from the start: the ping and every redis call raise.
InitDown ==
    /\ Init
    /\ scope \in {{"mock"}, {"kobert"}}
    /\ ops = MaxOps
    /\ keep = {}

NextDown ==
    \/ Return(1)
    \/ \E m \in scope, b \in Batches : Lookup(1, m, b)
    \/ LookupResume(1, "fail")
    \/ \E m \in scope, b \in Batches : Store(1, m, b)
    \/ StoreResume(1, "fail")
    \/ \E m \in scope : Invalidate(1, m)
    \/ InvalidateKeysResume(1, "fail")
    \/ InitRedisConnect
    \/ InitRedisPingFail
    \/ Tick

SpecDown == InitDown /\ [][NextDown]_vars

\* One caller of a model that reaches redis, over a redis that answers the
\* startup ping and then answers or fails call by call; no time passes.
InitFlaky ==
    /\ Init
    /\ scope \in {{"kobert"}, {"onnx_kobert"}}
    /\ ops = MaxOps
    /\ keep = {"probes", "counts"}

NextFlaky ==
    \/ Return(1)
    \/ \E m \in scope, b \in Batches : Lookup(1, m, b)
    \/ \E o \in Outcomes : LookupResume(1, o)
    \/ \E m \in scope, b \in Batches : Store(1, m, b)
    \/ \E o \in Outcomes : StoreResume(1, o)
    \/ InitRedisConnect
    \/ InitRedisPingOk

SpecFlaky == InitFlaky /\ [][NextFlaky]_vars

\* the compressions another writer of the redis server uses
ForeignCompressions == {"none", "pickle"}

\* One caller of a model that reaches redis, over a redis that answers every
\* call and that another writer shares; no time passes.
InitForeign ==
    /\ Init
    /\ scope \in {{"kobert"}, {"onnx_kobert"}}
    /\ ops = MaxOps
    /\ keep = {}

NextForeign ==
    \/ Return(1)
    \/ \E m \in scope, b \in Batches : Lookup(1, m, b)
    \/ LookupResume(1, "ok")
    \/ \E m \in scope, b \in Batches : Store(1, m, b)
    \/ StoreResume(1, "ok")
    \/ InitRedisConnect
    \/ InitRedisPingOk
    \/ \E m \in scope, x \in Texts, z \in ForeignCompressions : RedisForeignWrite(m, x, z)

SpecForeign == InitForeign /\ [][NextForeign]_vars

\* One caller that stores and looks up one text at a time, out of more texts
\* than the memory cache of the model holds; time passes between the calls.
\* The startup task has not run yet: the HYBRID model uses its memory cache only.
InitLru ==
    /\ Init
    /\ scope \in {{"mock"}, {"kobert"}}
    /\ ops = LruOps
    /\ keep = {}

NextLru ==
    \/ Return(1)
    \/ \E m \in scope, x \in MoreTexts : Lookup(1, m, <<x>>)
    \/ \E m \in scope, x \in MoreTexts : Store(1, m, <<x>>)
    \/ TickBetweenCalls

SpecLru == InitLru /\ [][NextLru]_vars

\* Two callers of get_cache_statistics whose cleanups interleave at the redis
\* key scans, while time passes.
InitStats ==
    /\ Init
    /\ scope = {}
    /\ ops = MaxOps
    /\ keep = {}

NextStats ==
    \/ \E t \in Tasks : Return(t)
    \/ \E t \in Tasks : GetStatistics(t)
    \/ \E t \in Tasks, o \in Outcomes : CleanupResume(t, o)
    \/ InitRedisConnect
    \/ InitRedisPingOk
    \/ InitRedisPingFail
    \/ Tick

SpecStats == InitStats /\ [][NextStats]_vars

\* the text_pattern arguments a caller passes
Patterns == {<<"4">>, <<"c", "f">>, <<"*">>}

\* One caller of a HYBRID model that stores, looks up and invalidates by
\* pattern, over a redis that answers every call; no time passes.
InitPattern ==
    /\ Init
    /\ scope = {"kobert"}
    /\ ops = MaxOps
    /\ keep = {}

NextPattern ==
    \/ Return(1)
    \/ \E m \in scope, b \in Batches : Lookup(1, m, b)
    \/ LookupResume(1, "ok")
    \/ \E m \in scope, b \in Batches : Store(1, m, b)
    \/ StoreResume(1, "ok")
    \/ \E m \in scope, p \in Patterns : InvalidatePattern(1, m, p)
    \/ InvalidateKeysResume(1, "ok")
    \/ InvalidateDeleteResume(1, "ok")
    \/ InitRedisConnect
    \/ InitRedisPingOk

SpecPattern == InitPattern /\ [][NextPattern]_vars

(* ----------------------------- properties ----------------------------- *)

\* the entries of s at the positions where flags has the value want, in order
RECURSIVE Picked(_, _, _)
Picked(s, flags, want) ==
    IF s = <<>> THEN <<>>
    ELSE (IF Head(flags) = want THEN <<Head(s)>> ELSE <<>>)
         \o Picked(Tail(s), Tail(flags), want)

HashesOf(items, model_name) ==
    [i \in 1..Len(items) |-> _generate_text_hash(items[i].text, model_name)]

\* a call of get_cached_embeddings for a configured model that returned, that
\* nothing else interleaved with and whose redis calls all answered
CleanLookup(tk) ==
    tk.op = "lookup" /\ tk.pc = "done" /\ tk.clean /\ tk.model \in Models

\* Every lookup partitions its batch: the hits are the entries of the items
\* that a tier of the model held when they were looked up, the misses are the
\* other items, each item once and in the order of the batch.
LookupPartitionsBatch ==
    \A t \in Tasks :
        LET tk == tasks[t] IN
        CleanLookup(tk) =>
            /\ Len(tk.held) = Len(tk.items)
            /\ Len(tk.hits) + Len(tk.misses) = Len(tk.items)
            /\ [i \in 1..Len(tk.hits) |-> tk.hits[i].e.text_hash]
                    = HashesOf(Picked(tk.items, tk.held, TRUE), tk.model)
            /\ tk.misses = Picked(tk.items, tk.held, FALSE)

TextsOf(items) == {items[i].text : i \in 1..Len(items)}

\* The lookup tk began when a store for the same model had just returned, and
\* returned itself: the startup task had finished, both calls ran undisturbed
\* at one time, every redis call they made answered, and the store held no
\* more texts than max_memory_items.
FollowsStore(tk) ==
    /\ CleanLookup(tk)
    /\ init_pc = "done"
    /\ tk.after # <<>>
    /\ tk.after[1].op = "store"
    /\ tk.after[1].model = tk.model
    /\ tk.after[1].clean
    /\ Cardinality(TextsOf(tk.after[1].items))
            <= cache_configs[tk.model].max_memory_items

\* the positions of the batch of tk whose text the store before it stored
StoredBefore(tk) == {i \in 1..Len(tk.items) : tk.items[i].text \in TextsOf(tk.after[1].items)}

HitAt(tk, i) ==
    \E j \in 1..Len(tk.hits) :
        tk.hits[j].e.text_hash = _generate_text_hash(tk.items[i].text, tk.model)

MissAt(tk, i) == \E j \in 1..Len(tk.misses) : tk.misses[j].id = tk.items[i].id

\* C1: a lookup of a batch of N items, K of which were stored under the same
\* model just before (not expired, not evicted), returns N results in all, at
\* least K of them hits: every stored item is a hit and no miss, every other
\* item is a hit or a miss.
C1_StoredItemsAreTheHits ==
    \A t \in Tasks :
        LET tk == tasks[t] IN
        FollowsStore(tk) =>
            /\ Len(tk.hits) + Len(tk.misses) = Len(tk.items)
            /\ Len(tk.hits) >= Cardinality(StoredBefore(tk))
            /\ \A i \in 1..Len(tk.items) :
                /\ HitAt(tk, i) # MissAt(tk, i)
                /\ i \in StoredBefore(tk) => HitAt(tk, i)

RECURSIVE SumOver(_, _)
SumOver(f, S) ==
    IF S = {} THEN 0
    ELSE LET x == CHOOSE y \in S : TRUE IN f[x] + SumOver(f, S \ {x})

CountersAgree ==
    \A m \in Models :
        cache_stats[m].cache_hits + cache_stats[m].cache_misses
            = cache_stats[m].total_requests

\* what one step adds to the counters of every model is what the lookups
\* running in that step processed: one total_requests for each item, and a
\* cache_hits for each entry appended to the hits, a cache_misses for each
\* item appended to the misses
ItemsTallyOnce ==
    \A m \in Models :
        LET began(t) == tasks[t].op = "none" /\ tasks'[t].op = "lookup"
            went(t) == tasks'[t].op = "lookup" /\ tasks'[t].model = m
            items == SumOver([t \in Tasks |->
                        IF went(t)
                        THEN tasks'[t].idx - (IF began(t) THEN 1 ELSE tasks[t].idx)
                        ELSE 0], Tasks)
            hits == SumOver([t \in Tasks |->
                        IF went(t) THEN Len(tasks'[t].hits) - Len(tasks[t].hits)
                        ELSE 0], Tasks)
            misses == SumOver([t \in Tasks |->
                        IF went(t) THEN Len(tasks'[t].misses) - Len(tasks[t].misses)
                        ELSE 0], Tasks)
        IN /\ cache_stats'[m].total_requests - cache_stats[m].total_requests = items
           /\ cache_stats'[m].cache_hits - cache_stats[m].cache_hits = hits
           /\ cache_stats'[m].cache_misses - cache_stats[m].cache_misses = misses
           /\ items = hits + misses

\* C2: in every reachable state cache_hits + cache_misses = total_requests for
\* every model, and every step of a lookup, whatever it interleaves with, adds
\* one to total_requests and one to exactly one of cache_hits and cache_misses
\* for each item it processes.
C2_CountersAccountForItems == []CountersAgree /\ [][ItemsTallyOnce]_vars

\* two lookups of one model are suspended at their redis get, one of them
\* after a hit and the other after a miss were tallied
C2_Witness ==
    /\ \A t \in Tasks : tasks[t].op = "lookup" /\ tasks[t].pc = "await_get"
    /\ \E m \in Models :
        /\ \A t \in Tasks : tasks[t].model = m
        /\ cache_stats[m].cache_hits > 0
        /\ cache_stats[m].cache_misses > 0

\* C3: every per-model entry of a snapshot returned by get_cache_statistics
\* has hit_rate = cache_hits / total_requests, and 0 when total_requests is 0,
\* also when lookups of the model are suspended at a redis call.
C3_SnapshotHitRateIsQuotient ==
    \A t \in Tasks :
        (tasks[t].op = "stats" /\ tasks[t].pc = "done") =>
            \A m \in Models :
                LET st == tasks[t].snapshot[1].by_model[m] IN
                IF st.total_requests = 0 THEN st.hit_rate.num = 0
                ELSE SameRatio(st.hit_rate, st.cache_hits, st.total_requests)

\* C4: an entry stored with ttl_seconds = T is no hit at an age of T or more:
\* every access that a lookup returned as a hit happened less than T after
\* the entry was created, whatever evictions and promotions happened since.
C4_NoHitAtOrAfterTTL ==
    \A t \in Tasks :
        LET tk == tasks[t] IN
        (tk.op = "lookup" /\ tk.pc = "done" /\ tk.model \in Models) =>
            \A j \in 1..Len(tk.hits) :
                tk.hits[j].e.last_accessed - tk.hits[j].e.created_at
                    < cache_configs[tk.model].ttl_seconds

\* C5: once the startup ping has failed, for every configured model the
\* entries that a store wrote are hits of the lookup that follows it.
C5_StoredIsHitAfterFailedProbe ==
    \A t \in Tasks :
        LET tk == tasks[t] IN
        (FollowsStore(tk) /\ redis_client = None) =>
            \A i \in StoredBefore(tk) : HitAt(tk, i) /\ ~MissAt(tk, i)

FailedCalls(tk) ==
    Cardinality({i \in 1..Len(tk.probes) :
                    \E j \in 1..Len(tk.probes[i]) : tk.probes[i][j] = "failed"})

\* no lookup and no store for a configured model raises, and an item whose
\* redis get raised is a miss of its lookup
RemoteFailureIsAbsence ==
    \A t \in Tasks :
        LET tk == tasks[t] IN
        (tk.op \in {"lookup", "store"} /\ tk.model \in Models) =>
            /\ tk.pc # "raised"
            /\ (tk.op = "lookup" /\ tk.pc = "done") =>
                    \A i \in 1..Len(tk.items) :
                        (\E j \in 1..Len(tk.probes[i]) : tk.probes[i][j] = "failed")
                            => MissAt(tk, i)

\* a step in which a redis call raised leaves the redis server as it was, and
\* the call goes on: to its next redis call or to its return
RemoteFailureIsNoOp ==
    \A t \in Tasks :
        FailedCalls(tasks'[t]) > FailedCalls(tasks[t]) =>
            /\ redis' = redis
            /\ tasks'[t].pc \in {"done", "await_get", "await_setex"}

\* C6: get_cached_embeddings and store_embeddings never raise because of
\* redis, whether the startup ping failed or a single get or setex raises: the
\* call goes on to its return, a failed get makes the item a miss and a
\* failed setex writes nothing.
C6_RemoteFailuresAreSwallowed == []RemoteFailureIsAbsence /\ [][RemoteFailureIsNoOp]_vars

\* a lookup returned after a redis get raised, and a store after a setex raised
C6_Witness ==
    \E t \in Tasks :
        /\ tasks[t].pc = "done"
        /\ tasks[t].op = "lookup"
        /\ FailedCalls(tasks[t]) > 0
        /\ tasks[t].after # <<>>
        /\ tasks[t].after[1].op = "store"
        /\ ~tasks[t].after[1].clean

\* C7: a lookup and a store for a model name that is in no config do not raise.
C7_UnknownModelNeverRaises ==
    \A t \in Tasks :
        (tasks[t].op \in {"lookup", "store"} /\ tasks[t].model \notin Models) =>
            tasks[t].pc # "raised"

\* C8: the tiers a lookup probes for an item follow from the strategy:
\* MEMORY_ONLY the memory cache only, REDIS_ONLY redis only, HYBRID and
\* PERSISTENT alike the memory cache and, when it misses, redis, with a
\* promotion into the memory cache when redis holds the entry.
C8_ProbesFollowStrategy ==
    \A t \in Tasks :
        LET tk == tasks[t] IN
        (CleanLookup(tk) /\ init_pc = "done" /\ redis_client # None) =>
            \A i \in 1..Len(tk.items) :
                CASE strategy[tk.model] = MEMORY_ONLY -> tk.probes[i] = <<"memory">>
                  [] strategy[tk.model] = REDIS_ONLY -> tk.probes[i] = <<"remote">>
                  [] OTHER ->
                        tk.probes[i] \in {<<"memory">>, <<"memory", "remote">>,
                                          <<"memory", "remote", "promote">>}

\* the positions of the batch of tk whose text is in the batch once
Single(tk) ==
    {i \in 1..Len(tk.items) :
        \A k \in 1..Len(tk.items) : tk.items[k].text = tk.items[i].text => k = i}

\* C9: the lookup that follows a store of (text, model) is a hit for the text
\* that carries the stored vector and norm with access_count = 2; and the hits
\* of a lookup are entries of its own model only, so that the same text stored
\* under another model is a miss.
C9_StoreThenLookupHitsOnce ==
    \A t \in Tasks :
        LET tk == tasks[t] IN
        /\ FollowsStore(tk) =>
                \A i \in StoredBefore(tk) \cap Single(tk) :
                    \E j \in 1..Len(tk.hits) :
                        LET e == tk.hits[j].e IN
                        /\ e.text_hash = _generate_text_hash(tk.items[i].text, tk.model)
                        /\ e.embedding_vector = Compute(tk.items[i].text, tk.model).vector
                        /\ e.norm = Compute(tk.items[i].text, tk.model).norm
                        /\ e.access_count = 2
        /\ CleanLookup(tk) =>
                \A j \in 1..Len(tk.hits) :
                    /\ tk.hits[j].e.model_name = tk.model
                    /\ \E i \in 1..Len(tk.items) :
                        tk.hits[j].e.text_hash
                            = _generate_text_hash(tk.items[i].text, tk.model)

\* task t takes a step of invalidate_cache(model_name)
InvalidateStep(t) ==
    /\ tasks'[t].op = "invalidate"
    /\ tasks'[t].model \in Models
    /\ \/ tasks[t].op = "none"
       \/ tasks'[t].idx # tasks[t].idx
       \/ tasks'[t].pc # tasks[t].pc

\* the memory caches of the other models and the redis keys outside the
\* prefix of the model are what they were, and what a tier held of another
\* model it still holds
OthersUntouched(model_name) ==
    /\ \A m \in DOMAIN memory_caches \ {model_name} :
            memory_caches'[m] = memory_caches[m]
    /\ \A k \in DOMAIN redis :
            ~GlobPrefix(k, cache_configs[model_name].redis_key_prefix) =>
                k \in DOMAIN redis' /\ redis'[k] = redis[k]
    /\ \A m \in Models \ {model_name}, x \in Texts :
            Held(Ctx, m, _generate_text_hash(x, m))
                => Held(Ctx, m, _generate_text_hash(x, m))'

\* C10: every step of invalidate_cache(model_name = M) leaves the entries of
\* every other model unchanged, in the memory caches and in redis, and what
\* was a hit for another model is still one.
C10_InvalidateLeavesOtherModels ==
    [][\A t \in Tasks : InvalidateStep(t) => OthersUntouched(tasks'[t].model)]_vars

\* an invalidate of one model ran, with redis answering, while redis held an
\* entry of another model, which the lookup that followed returned as a hit
C10_Witness ==
    \E t \in Tasks :
        LET tk == tasks[t] IN
        /\ CleanLookup(tk)
        /\ tk.after # <<>>
        /\ tk.after[1].op = "invalidate"
        /\ tk.after[1].model \in Models \ {tk.model}
        /\ tk.after[1].clean
        /\ redis_client # None
        /\ Len(tk.hits) > 0
        /\ \E k \in DOMAIN redis : GlobPrefix(k, cache_configs[tk.model].redis_key_prefix)

\* the models that a call of invalidate_cache is to clear
ModelsToClear(tk) == IF Truthy(tk.model) THEN {tk.model} ELSE Models

Downgraded == init_pc = "done" /\ redis_client = None

\* task t sends a redis get or setex in this step
IssuesRemote(t) ==
    /\ tasks'[t].op \in {"lookup", "store"}
    /\ tasks'[t].pc \in {"await_get", "await_setex"}
    /\ tasks'[t].pc # tasks[t].pc \/ tasks'[t].idx # tasks[t].idx

AllMemoryOnly == \A m \in Models : strategy[m] = MEMORY_ONLY

\* once downgraded, always downgraded, and no step sends a get or a setex
DowngradeIsPermanent ==
    Downgraded =>
        /\ Downgraded'
        /\ strategy' = strategy
        /\ \A t \in Tasks : ~IssuesRemote(t)

\* C12: when the startup ping has failed, every config that was REDIS_ONLY,
\* HYBRID or PERSISTENT is MEMORY_ONLY and stays so in every later state, and
\* from then on no lookup and no store sends a redis get or setex.
C12_DowngradeIsPermanent == [](Downgraded => AllMemoryOnly) /\ [][DowngradeIsPermanent]_vars

\* after the downgrade, a store for a model configured HYBRID or PERSISTENT
\* returned without a redis call while another call, which was suspended at
\* redis when the ping failed, is still running
C12_Witness ==
    /\ Downgraded
    /\ \E t \in Tasks :
        /\ tasks[t].op = "store"
        /\ tasks[t].pc = "done"
        /\ cache_configs[tasks[t].model].strategy \in RedisStrategies
        /\ \A i \in 1..Len(tasks[t].probes) :
                \A j \in 1..Len(tasks[t].probes[i]) : tasks[t].probes[i][j] # "remote"
    /\ \E u \in Tasks : tasks[u].pc \in {"await_get", "await_setex"}

\* What a MEMORY_ONLY model does with the items of a lookup (lines 271-274 and
\* 213-223 with the strategy MEMORY_ONLY): for each hash, a hit that touches
\* and counts the entry when the TTLCache holds it, a miss otherwise.  The
\* result is the cache and, for each item, whether it was a hit.
RECURSIVE MemoryOnlyLookup(_, _)
MemoryOnlyLookup(cache, hashes) ==
    IF hashes = <<>> THEN [mem |-> cache, flags |-> <<>>]
    ELSE LET h == Head(hashes)
             hit == TTLContains(cache, h, now)
             e == TTLGetValue(cache, h, now)
             touched == TTLGetTouch(cache, h, now)
             c1 == IF hit
                   THEN [i \in 1..Len(touched) |->
                            IF touched[i].key = h
                            THEN [touched[i] EXCEPT !.value =
                                    [e EXCEPT !.access_count = @ + 1,
                                              !.last_accessed = now]]
                            ELSE touched[i]]
                   ELSE cache
             rest == MemoryOnlyLookup(c1, Tail(hashes))
         IN [mem |-> rest.mem, flags |-> <<hit>> \o rest.flags]

\* what a MEMORY_ONLY model does with the pairs of a store (lines 251-263 and
\* 300-301)
RECURSIVE MemoryOnlyStore(_, _, _, _)
MemoryOnlyStore(cache, model_name, texts, results) ==
    IF texts = <<>> THEN cache
    ELSE LET h == _generate_text_hash(Head(texts), model_name)
         IN MemoryOnlyStore(
                TTLSetItem(cache, h, NewEmbedding(h, model_name, Head(results)), now,
                           cache_configs[model_name].max_memory_items,
                           cache_configs[model_name].ttl_seconds),
                model_name, Tail(texts), Tail(results))

CountOf(flags, want) == Cardinality({i \in 1..Len(flags) : flags[i] = want})

\* the items that the lookup of task t finishes in this step: from the item
\* it stood at to the item it stands at after the step
StepItems(t) ==
    LET first == IF tasks[t].pc = "idle" THEN 1 ELSE tasks[t].idx
    IN SubSeq(tasks'[t].items, first, tasks'[t].idx - 1)

\* the items that the store of task t writes to the memory cache in this
\* step: the item it is suspended at is written before the redis setex
StoreStepItems(t) ==
    LET first == IF tasks[t].pc = "idle" THEN 1 ELSE tasks[t].idx + 1
        last == IF tasks'[t].pc = "await_setex" THEN tasks'[t].idx ELSE tasks'[t].idx - 1
    IN SubSeq(tasks'[t].items, first, last)

\* a step of a lookup, a store or an invalidate of model m does to the memory
\* cache, the results and the counters of m what a MEMORY_ONLY model does
\* with the items of the step
StepIsMemoryOnly(t) ==
    LET tk == tasks'[t]
        m == tk.model
        items == StepItems(t)
        hashes == HashesOf(items, m)
        ref == MemoryOnlyLookup(memory_caches[m], hashes)
        refhits == Picked(hashes, ref.flags, TRUE)
        old == IF tasks[t].pc = "idle" THEN IdleTask ELSE tasks[t]
    IN /\ tk.op = "lookup" =>
            /\ memory_caches'[m] = ref.mem
            /\ Len(tk.hits) = Len(old.hits) + Len(refhits)
            /\ \A j \in 1..Len(refhits) :
                    /\ tk.hits[Len(old.hits) + j].e.text_hash = refhits[j]
                    /\ tk.hits[Len(old.hits) + j].e = TTLGetValue(ref.mem, refhits[j], now)
            /\ tk.misses = old.misses \o Picked(items, ref.flags, FALSE)
            /\ cache_stats'[m].cache_hits
                    = cache_stats[m].cache_hits + CountOf(ref.flags, TRUE)
            /\ cache_stats'[m].cache_misses
                    = cache_stats[m].cache_misses + CountOf(ref.flags, FALSE)
            /\ cache_stats'[m].total_requests
                    = cache_stats[m].total_requests + Len(items)
       /\ tk.op = "store" =>
            /\ memory_caches'[m] =
                    MemoryOnlyStore(memory_caches[m], m,
                                    [i \in 1..Len(StoreStepItems(t)) |->
                                        StoreStepItems(t)[i].text],
                                    [i \in 1..Len(StoreStepItems(t)) |->
                                        Compute(StoreStepItems(t)[i].text, m)])
            /\ cache_stats' = cache_stats
       /\ tk.op = "invalidate" =>
            /\ memory_caches'[m] = <<>>
            /\ cache_stats' = cache_stats
       /\ tk.pc \in {"done", "await_get", "await_setex", "await_keys"}

\* C13: over a redis that is unreachable from the start, every step of a
\* lookup, a store or an invalidate of a HYBRID model returns the hits and
\* misses and leaves the memory cache and the counters that a MEMORY_ONLY
\* model with the same ttl and capacity returns and leaves, and redis stays
\* empty.
C13_DowngradedHybridIsMemoryOnly ==
    /\ [](redis = <<>>)
    /\ [][\A t \in Tasks :
            (tasks'[t] # tasks[t] /\ tasks'[t].pc # "idle" /\ tasks'[t].model \in Models)
                => StepIsMemoryOnly(t)]_vars

\* after the failed ping, a lookup of the HYBRID model returned a hit and a
\* miss, and redis calls had failed before
C13_Witness ==
    /\ Downgraded
    /\ \E t \in Tasks :
        /\ tasks[t].op = "lookup"
        /\ tasks[t].pc = "done"
        /\ cache_configs[tasks[t].model].strategy = HYBRID
        /\ Len(tasks[t].hits) > 0
        /\ Len(tasks[t].misses) > 0
        /\ tasks[t].after # <<>>
        /\ ~tasks[t].after[1].clean

\* the startup ping was answered
Connected == init_pc = "done" /\ redis_client # None

HasProbe(probes, what) ==
    \E i \in 1..Len(probes) : \E j \in 1..Len(probes[i]) : probes[i][j] = what

\* a step in which a redis call of a lookup or a store raised leaves the
\* strategies and the client as they were
FailureKeepsStrategy ==
    \A t \in Tasks :
        FailedCalls(tasks'[t]) > FailedCalls(tasks[t]) =>
            /\ strategy' = strategy
            /\ redis_client' = redis_client

\* while connected every config has its configured strategy, and a lookup or
\* a store that began when a call with a failed redis call had just returned
\* reaches redis again: the store for every item, the lookup for every item
\* that the memory cache does not hold
FailureKeepsRemoteTier ==
    /\ Connected => \A m \in Models : strategy[m] = cache_configs[m].strategy
    /\ \A t \in Tasks :
        LET tk == tasks[t] IN
        ( /\ Connected
          /\ tk.pc = "done"
          /\ tk.op \in {"lookup", "store"}
          /\ tk.after # <<>>
          /\ tk.after[1].time = tk.start_time
          /\ HasProbe(tk.after[1].probes, "failed") ) =>
            \A i \in 1..Len(tk.items) :
                \/ \E j \in 1..Len(tk.probes[i]) : tk.probes[i][j] = "remote"
                \/ tk.op = "lookup" /\ tk.probes[i] = <<"memory">> /\ HitAt(tk, i)

\* C14: a redis call that fails after the startup ping was answered does not
\* downgrade: the failed call leaves the strategies and the client unchanged,
\* and the lookup or store that follows it reaches redis again.
C14_FailureDoesNotDowngrade == []FailureKeepsRemoteTier /\ [][FailureKeepsStrategy]_vars

\* after the ping was answered, a lookup whose redis get failed returned, and
\* the lookup that followed it got its hit from redis
C14_Witness ==
    /\ Connected
    /\ \E t \in Tasks :
        LET tk == tasks[t] IN
        /\ CleanLookup(tk)
        /\ tk.after # <<>>
        /\ tk.after[1].op = "lookup"
        /\ HasProbe(tk.after[1].probes, "failed")
        /\ HasProbe(tk.probes, "remote")
        /\ Len(tk.hits) > 0

\* the items of the call for which the decoder rejected the redis payload
Undecodable(tk) ==
    {i \in 1..Len(tk.probes) :
        \E j \in 1..Len(tk.probes[i]) : tk.probes[i][j] = "undecodable"}

\* no lookup raises, and an item whose payload was rejected is a miss and
\* was not promoted
UndecodableIsMiss ==
    \A t \in Tasks :
        LET tk == tasks[t] IN
        (tk.op = "lookup" /\ tk.model \in Models) =>
            /\ tk.pc # "raised"
            /\ \A i \in Undecodable(tk) :
                    /\ \A j \in 1..Len(tk.probes[i]) : tk.probes[i][j] # "promote"
                    /\ tk.pc = "done" => MissAt(tk, i)

\* the step in which the decoder rejects the payload of the item the lookup
\* stood at appends that item to the misses, adds to the counters one
\* total_requests for each item the step finishes, one cache_misses for each
\* miss and one cache_hits for each hit, and puts nothing in the memory
\* cache under the hash of the item
UndecodableCountsAsMiss ==
    \A t \in Tasks :
        LET old == tasks[t]
            tk == tasks'[t]
            m == tk.model
            h == _generate_text_hash(old.items[old.idx].text, m)
        IN Cardinality(Undecodable(tk)) > Cardinality(Undecodable(old)) =>
            /\ Len(tk.misses) > Len(old.misses)
            /\ tk.misses[Len(old.misses) + 1] = old.items[old.idx]
            /\ cache_stats'[m].cache_misses - cache_stats[m].cache_misses
                    = Len(tk.misses) - Len(old.misses)
            /\ cache_stats'[m].cache_hits - cache_stats[m].cache_hits
                    = Len(tk.hits) - Len(old.hits)
            /\ cache_stats'[m].total_requests - cache_stats[m].total_requests
                    = tk.idx - old.idx
            /\ tk.idx - old.idx = (Len(tk.misses) - Len(old.misses))
                                    + (Len(tk.hits) - Len(old.hits))
            /\ m \in DOMAIN memory_caches => ~TTLContains(memory_caches'[m], h, now)
            /\ redis' = redis

\* C15: when the redis payload of an item cannot be decoded (it is corrupt or
\* was written with another compression), the lookup does not raise, the item
\* is among the misses, cache_misses and total_requests are incremented by
\* one for it, and nothing is promoted into the memory cache.
C15_UndecodableIsMiss == []UndecodableIsMiss /\ [][UndecodableCountsAsMiss]_vars

\* a lookup of the HYBRID model returned a hit, and a miss for an item whose
\* redis payload the decoder rejected
C15_Witness ==
    \E t \in Tasks :
        LET tk == tasks[t] IN
        /\ tk.op = "lookup"
        /\ tk.pc = "done"
        /\ cache_configs[tk.model].strategy = HYBRID
        /\ Undecodable(tk) # {}
        /\ Len(tk.hits) > 0

\* the step in which the redis get of the item the lookup stood at is
\* answered with an entry that is promoted: the memory cache then holds the
\* decoded entry under the hash of the item
PromotionFillsMemory ==
    \A t \in Tasks :
        LET old == tasks[t]
            tk == tasks'[t]
            m == tk.model
            h == _generate_text_hash(old.items[old.idx].text, m)
            key == RedisKey(ConfigOf(m), h)
            e == TTLGetValue(memory_caches'[m], h, now)
        IN ( /\ old.op = "lookup"
             /\ old.pc = "await_get"
             /\ tk.op = "lookup"
             /\ \E j \in 1..Len(tk.probes[old.idx]) : tk.probes[old.idx][j] = "promote" ) =>
                /\ TTLContains(memory_caches'[m], h, now)
                /\ e.text_hash = h
                /\ [e EXCEPT !.access_count = 0, !.last_accessed = 0]
                     = [_decompress_embedding(redis[key].data,
                                              cache_configs[ConfigOf(m)].compression)
                            EXCEPT !.access_count = 0, !.last_accessed = 0]

\* the lookup tk began when a lookup of the same model had just returned
\* whose last item was promoted
FollowsPromotion(tk) ==
    /\ tk.op = "lookup"
    /\ tk.pc = "done"
    /\ tk.after # <<>>
    /\ tk.after[1].op = "lookup"
    /\ tk.after[1].model = tk.model
    /\ tk.after[1].time = tk.start_time
    /\ LET n == Len(tk.after[1].items)
       IN n > 0 /\ \E j \in 1..Len(tk.after[1].probes[n]) :
                        tk.after[1].probes[n][j] = "promote"

\* the lookup that follows a promotion serves the promoted text from the
\* memory cache, with no redis call
PromotedIsServedFromMemory ==
    \A t \in Tasks :
        LET tk == tasks[t] IN
        FollowsPromotion(tk) =>
            LET x == tk.after[1].items[Len(tk.after[1].items)].text
            IN \A i \in 1..Len(tk.items) :
                    (\A k \in 1..i : tk.items[k].text = x) =>
                        /\ tk.probes[i] = <<"memory">>
                        /\ HitAt(tk, i)
                        /\ ~MissAt(tk, i)

\* C16: under HYBRID a lookup that misses the memory cache and hits redis
\* copies the decoded entry into the memory cache under the same hash, and
\* the next lookup of the same model and text is served from the memory
\* cache without a redis call.
C16_RemoteHitIsPromoted == []PromotedIsServedFromMemory /\ [][PromotionFillsMemory]_vars

\* a lookup returned the text from the memory cache that the lookup before
\* it had promoted from redis
C16_Witness ==
    \E t \in Tasks :
        LET tk == tasks[t] IN
        /\ FollowsPromotion(tk)
        /\ tk.items[1].text = tk.after[1].items[Len(tk.after[1].items)].text
        /\ tk.probes[1] = <<"memory">>
        /\ strategy[tk.model] = HYBRID

KeysOf(cache) == [i \in 1..Len(cache) |-> cache[i].key]

\* no memory cache holds more than max_memory_items entries
MemoryWithinCapacity ==
    \A m \in DOMAIN memory_caches :
        Len(memory_caches[m]) <= cache_configs[m].max_memory_items

\* A call for one item that ran in one step.  A store leaves the keys that
\* had not expired, without the least recently used ones that exceed
\* max_memory_items - 1, and the stored key as the most recently used; a
\* lookup that hits makes its key the most recently used; a lookup that
\* misses changes nothing.
UseOrderStep(t) ==
    LET tk == tasks'[t]
        m == tk.model
        h == _generate_text_hash(tk.items[1].text, m)
        old == memory_caches[m]
        live == SelectSeq(old, LAMBDA link : now < link.expires)
        others(keys) == SelectSeq(keys, LAMBDA k : k # h)
    IN ( /\ tasks[t].pc = "idle"
         /\ tk.pc = "done"
         /\ tk.op \in {"lookup", "store"}
         /\ Len(tk.items) = 1
         /\ m \in DOMAIN memory_caches ) =>
            /\ tk.op = "store" =>
                    /\ KeysOf(memory_caches'[m])
                        = LastN(others(KeysOf(live)), cache_configs[m].max_memory_items - 1)
                            \o <<h>>
                    /\ Len(live) >= cache_configs[m].max_memory_items =>
                            Len(memory_caches'[m]) = cache_configs[m].max_memory_items
            /\ (tk.op = "lookup" /\ Len(tk.hits) = 1) =>
                    KeysOf(memory_caches'[m]) = others(KeysOf(old)) \o <<h>>
            /\ (tk.op = "lookup" /\ Len(tk.hits) = 0) =>
                    memory_caches'[m] = old

\* C17: a store into a memory cache that holds max_memory_items unexpired
\* entries leaves exactly max_memory_items, the evicted entry being the least
\* recently used one, where a store and a lookup hit are both a use; and no
\* memory cache ever holds more than its max_memory_items.
C17_EvictsLeastRecentlyUsed ==
    []MemoryWithinCapacity /\ [][\A t \in Tasks : UseOrderStep(t)]_vars

\* a store into the full memory cache of the mock model returned: the cache
\* holds max_memory_items entries, the older of which a lookup had hit
C17_Witness ==
    \E t \in Tasks :
        LET tk == tasks[t] IN
        /\ tk.op = "store"
        /\ tk.pc = "done"
        /\ tk.model = "mock"
        /\ tk.probes = <<<<"memory", "evict">>>>
        /\ Len(memory_caches["mock"]) = MockMaxItems
        /\ memory_caches["mock"][1].value.access_count > 1

\* the call of get_cache_statistics ran the body of cleanup_expired_cache, or
\* is running it: it passed the test of lines 402-403 at tk.start_time
RanCleanup(tk) ==
    tk.op = "stats" /\ (tk.pc = "await_keys" \/ tk.idx > 1)

\* C18: the body of cleanup_expired_cache runs at most once per
\* cleanup_interval: two runs of the body begin at least cleanup_interval
\* apart, also when calls of get_cache_statistics are suspended at the redis
\* key scan.
C18_CleanupAtMostOncePerInterval ==
    \A t \in Tasks, u \in Tasks :
        (t # u /\ RanCleanup(tasks[t]) /\ RanCleanup(tasks[u])
            /\ tasks[t].start_time <= tasks[u].start_time) =>
                tasks[u].start_time - tasks[t].start_time >= CleanupInterval

\* the lookup tk began when a lookup of the same model had just returned;
\* both ran undisturbed and every redis call they made answered
FollowsLookup(tk) ==
    /\ CleanLookup(tk)
    /\ tk.after # <<>>
    /\ tk.after[1].op = "lookup"
    /\ tk.after[1].model = tk.model
    /\ tk.after[1].clean
    /\ tk.after[1].time = tk.start_time

\* C19: access_count counts the hits of an entry: when two lookups in a row
\* hit the same entry, the second returns an access_count that is one more
\* than the first returned, for every strategy, so that the k-th hit in a row
\* on an entry stored once returns 1 + k.
C19_AccessCountCountsHits ==
    \A t \in Tasks :
        LET tk == tasks[t] IN
        FollowsLookup(tk) =>
            \A j \in 1..Len(tk.hits), i \in 1..Len(tk.after[1].counts) :
                ( /\ tk.after[1].counts[i].text_hash = tk.hits[j].e.text_hash
                  /\ Len(tk.items) = 1
                  /\ Len(tk.after[1].items) = 1 ) =>
                    tk.hits[j].e.access_count = tk.after[1].counts[i].access_count + 1

\* A step of invalidate_cache(model_name, text_pattern) removes from the
\* memory cache of the model the unexpired entries whose key contains the
\* pattern and no other, removes from redis keys of the model whose digest
\* contains the pattern and no other, and leaves the other models alone.
PatternStepIsExact ==
    \A t \in Tasks :
        LET tk == tasks'[t]
            m == tk.model
            P == tk.pattern
        IN (InvalidateStep(t) /\ HasPattern(tk)) =>
            /\ OthersUntouched(m)
            /\ m \in DOMAIN memory_caches =>
                    memory_caches'[m]
                        = SelectSeq(memory_caches[m],
                                    LAMBDA link : ~(now < link.expires
                                                    /\ Contains(HexDigest(link.key), P)))
            /\ \A k \in DOMAIN redis :
                    k \in DOMAIN redis'
                        \/ ( /\ GlobPrefix(k, cache_configs[m].redis_key_prefix)
                             /\ Contains(HexDigest(k[Len(k)]), P) )
            /\ \A k \in DOMAIN redis' : k \in DOMAIN redis /\ redis'[k] = redis[k]

\* C20: invalidate_cache(model_name, text_pattern) removes from the cache of
\* the model only the entries whose key contains text_pattern as a substring,
\* in the memory cache and in redis, and leaves every other entry of the
\* model and every other model unchanged.
C20_PatternRemovesOnlyMatches == [][PatternStepIsExact]_vars

(* ------------------------- the codec alone ---------------------------- *)

\* The CachedEmbedding values handed to the codec: what store_embeddings
\* builds for a text and a model, with every compression_type value and the
\* access counts of a placeholder, a new entry and an entry that was hit.
Embeddings ==
    {[NewEmbedding(_generate_text_hash(x, m), m, Compute(x, m))
        EXCEPT !.compression_type = z, !.access_count = n] :
            x \in Texts, m \in {"mock", "kobert", "onnx_kobert"},
            z \in CompressionType, n \in 0..2}

\* a caller encodes e with _compress_embedding(e, written) and decodes the
\* bytes with _decompress_embedding(data, read): the call returns the decoded
\* CachedEmbedding, or the exception of the decoder leaves it (line 358)
RoundTrip(t, e, written, read) ==
    /\ Free(t)
    /\ ops > 0
    /\ ops' = ops - 1
    /\ LET data == _compress_embedding(e, written)
           c == [BeginCall(t, "codec", None) EXCEPT
                    !.tasks[t].results = <<[e |-> e, written |-> written, read |-> read]>>,
                    !.tasks[t].payload = <<data>>]
       IN IF Decodable(data, read)
          THEN Commit([c EXCEPT !.tasks[t].pc = "done",
                                !.tasks[t].hits =
                                    <<[e |-> _decompress_embedding(data, read),
                                       live |-> FALSE]>>], t)
          ELSE Commit(Raise(c, t, "DecodeError"), t)
    /\ UNCHANGED <<now, strategy, redis_client, init_pc, redis>>

\* One caller that encodes and decodes CachedEmbedding values, with every
\* pair of compression modes.
InitCodec == Init /\ scope = {} /\ ops = SeqOps /\ keep = {}

NextCodec ==
    \/ Return(1)
    \/ \E e \in Embeddings, w \in CompressionType, r \in CompressionType :
            RoundTrip(1, e, w, r)

SpecCodec == InitCodec /\ [][NextCodec]_vars

HashKey(t, model_name, text) ==
    /\ tasks[t].pc = "idle"
    /\ ops > 0
    /\ ops' = ops - 1
    /\ Commit([BeginCall(t, "hash", model_name) EXCEPT
                    !.tasks[t].items = ItemsOf(<<text>>),
                    !.tasks[t].payload = <<_generate_text_hash(text, model_name)>>,
                    !.tasks[t].pc = "hashed"], t)
    /\ UNCHANGED <<now, strategy, redis_client, init_pc, redis>>

\* the caller drops the digest it held
HashDrop(t) ==
    /\ tasks[t].pc = "hashed"
    /\ tasks' = [tasks EXCEPT ![t] = IdleTask]
    /\ UNCHANGED <<now, strategy, redis_client, init_pc, memory_caches, redis,
                   cache_stats, request_times, last_cleanup, ops, scope, keep,
                   last_returned>>

\* Two callers that compute hash keys for every model name and text, at
\* different times.
InitHash == Init /\ scope = ModelNames /\ ops = MaxOps /\ keep = {}

NextHash ==
    \/ \E t \in Tasks : HashDrop(t)
    \/ \E t \in Tasks, m \in scope, x \in MoreTexts : HashKey(t, m, x)
    \/ Tick

SpecHash == InitHash /\ [][NextHash]_vars

Placeholder_short(text_hash, model_name) ==
    [text_hash |-> text_hash, model_name |-> model_name,
     embedding_vector |-> [i \in 1..(PlaceholderLen - 1) |-> 0],
     dimension |-> PlaceholderDimension,
     norm |-> 1, created_at |-> now, access_count |-> 0, last_accessed |-> now,
     compression_type |-> cache_configs[ConfigOf(model_name)].compression]

\* lines 381-391: the placeholder CachedEmbedding
Placeholder(text_hash, model_name) ==
    [text_hash |-> text_hash, model_name |-> model_name,
     embedding_vector |-> [i \in 1..PlaceholderLen |-> 0],
     dimension |-> PlaceholderDimension,
     norm |-> 1, created_at |-> now, access_count |-> 0, last_accessed |-> now,
     compression_type |-> cache_configs[ConfigOf(model_name)].compression]

RECURSIVE PrecomputeLoop(_, _)

\* lines 381-393 and 296-309: the item is not cached; the placeholder is put
\* into the memory cache and, up to the redis setex, into redis
PrecomputeStore(c, t) ==
    LET tk == c.tasks[t]
        m == tk.model
        cfg == ConfigOf(m)
        h == _generate_text_hash(tk.items[tk.idx].text, m)
        e == Placeholder(h, m)
        c0 == [c EXCEPT !.tasks[t].probes[tk.idx] = Append(@, "placeholder")]
        c1 == IF UsesMemory(c, m) THEN MemoryPut(c0, m, h, e) ELSE c0
    IN IF UsesRedis(m)
       THEN [c1 EXCEPT !.tasks[t].pc = "await_setex",
                       !.tasks[t].payload =
                           <<_compress_embedding(e, cache_configs[cfg].compression)>>]
       ELSE PrecomputeLoop([c1 EXCEPT !.tasks[t].idx = @ + 1], t)

\* lines 372-378 and 267-280: the loop over the texts, up to the next redis
\* get or setex, or the return
PrecomputeLoop(c, t) ==
    LET tk == c.tasks[t] IN
    IF tk.pc # "run" THEN c
    ELSE IF tk.idx > Len(tk.items) THEN [c EXCEPT !.tasks[t].pc = "done"]
    ELSE
        LET m == tk.model
            h == _generate_text_hash(tk.items[tk.idx].text, m)
            c1 == [c EXCEPT !.tasks[t].probes = Append(@, <<>>)]
        IN IF UsesMemory(c, m) /\ TTLContains(c.mem[m], h, now)
           THEN PrecomputeLoop([c1 EXCEPT !.mem[m] = TTLGetTouch(@, h, now),
                                          !.tasks[t].idx = @ + 1], t)
           ELSE IF UsesRedis(m)
           THEN [c1 EXCEPT !.tasks[t].pc = "await_get"]
           ELSE PrecomputeStore(c1, t)

\* lines 280-292 and 377-378: the answer of the redis get of _get_from_cache
PrecomputeGetResumed(c, t, outcome) ==
    LET tk == c.tasks[t]
        m == tk.model
        cfg == ConfigOf(m)
        h == _generate_text_hash(tk.items[tk.idx].text, m)
        key == RedisKey(cfg, h)
        c0 == [c EXCEPT !.tasks[t].pc = "run",
                        !.tasks[t].clean = @ /\ outcome = "ok"]
    IN IF outcome = "ok" /\ RedisHolds(key)
          /\ Decodable(redis[key].data, cache_configs[cfg].compression)
       THEN LET e == _decompress_embedding(redis[key].data,
                                           cache_configs[cfg].compression)
                c1 == IF strategy[cfg] = HYBRID /\ m \in DOMAIN c0.mem
                      THEN MemoryPut(c0, m, h, e) ELSE c0
            IN PrecomputeLoop([c1 EXCEPT !.tasks[t].idx = @ + 1], t)
       ELSE PrecomputeStore(c0, t)

\* lines 309-316: the answer of the redis setex, then the rest of the loop
PrecomputeSetexResumed(c, t, outcome) ==
    PrecomputeLoop([c EXCEPT !.tasks[t].pc = "run",
                             !.tasks[t].payload = <<>>,
                             !.tasks[t].idx = @ + 1,
                             !.tasks[t].clean = @ /\ outcome = "ok"], t)

\* Precompute without the test of lines 364-366
Precompute_always(t, model_name, b) ==
    /\ Free(t)
    /\ ops > 0
    /\ ops' = ops - 1
    /\ Commit(PrecomputeLoop([BeginCall(t, "precompute", model_name)
                                EXCEPT !.tasks[t].items = ItemsOf(b)], t), t)
    /\ UNCHANGED <<now, strategy, redis_client, init_pc, redis>>

\* a caller awaits precompute_embeddings(model_name, texts); lines 362-366
Precompute(t, model_name, b) ==
    /\ Free(t)
    /\ ops > 0
    /\ ops' = ops - 1
    /\ LET c == [BeginCall(t, "precompute", model_name)
                    EXCEPT !.tasks[t].items = ItemsOf(b)]
       IN IF ~cache_configs[ConfigOf(model_name)].enable_precompute
          THEN Commit([c EXCEPT !.tasks[t].pc = "done"], t)
          ELSE Commit(PrecomputeLoop(c, t), t)
    /\ UNCHANGED <<now, strategy, redis_client, init_pc, redis>>

\* the redis get of a suspended precompute answers or fails
PrecomputeGetResume(t, outcome) ==
    /\ Quiet
    /\ tasks[t].op = "precompute"
    /\ tasks[t].pc = "await_get"
    /\ Commit(PrecomputeGetResumed(Ctx, t, outcome), t)
    /\ UNCHANGED <<now, strategy, redis_client, init_pc, redis, ops>>

\* the redis setex of a suspended precompute answers or fails
PrecomputeSetexResume(t, outcome) ==
    /\ Quiet
    /\ tasks[t].op = "precompute"
    /\ tasks[t].pc = "await_setex"
    /\ LET tk == tasks[t]
           cfg == ConfigOf(tk.model)
           key == RedisKey(cfg, _generate_text_hash(tk.items[tk.idx].text, tk.model))
       IN redis' = IF outcome = "ok"
                   THEN RedisSetex(key, cache_configs[cfg].ttl_seconds, tk.payload[1])
                   ELSE redis
    /\ Commit(PrecomputeSetexResumed(Ctx, t, outcome), t)
    /\ UNCHANGED <<now, strategy, redis_client, init_pc, ops>>

\* One caller that stores, looks up and precomputes for one model name, over
\* a redis that answers the lookups and the stores; no time passes.
InitPre == Init /\ scope \in Singles /\ ops = MaxOps /\ keep = {}

NextPre ==
    \/ Return(1)
    \/ \E m \in scope, b \in Batches : Lookup(1, m, b)
    \/ LookupResume(1, "ok")
    \/ \E m \in scope, b \in Batches : Store(1, m, b)
    \/ StoreResume(1, "ok")
    \/ \E m \in scope, b \in Batches : Precompute(1, m, b)
    \/ \E o \in Outcomes : PrecomputeGetResume(1, o)
    \/ \E o \in Outcomes : PrecomputeSetexResume(1, o)
    \/ InitRedisConnect
    \/ InitRedisPingOk

SpecPre == InitPre /\ [][NextPre]_vars

\* the step in which task t begins precompute_embeddings for a model name
\* whose config (the mock config for an unknown name) has enable_precompute
\* false
DisabledPrecomputeStep(t) ==
    /\ tasks[t].op = "none"
    /\ tasks'[t].op = "precompute"
    /\ ~cache_configs[ConfigOf(tasks'[t].model)].enable_precompute

\* C23: precompute_embeddings(model_name, texts) for a model whose config
\* has enable_precompute false (the mock config stands in for an unknown
\* model name) returns at once and changes nothing: the memory caches, redis,
\* the statistics and the timings are what they were.
C23_DisabledPrecomputeIsNoOp ==
    [][\A t \in Tasks :
        DisabledPrecomputeStep(t) =>
            /\ tasks'[t].pc = "done"
            /\ memory_caches' = memory_caches
            /\ redis' = redis
            /\ cache_stats' = cache_stats
            /\ request_times' = request_times
            /\ strategy' = strategy
            /\ last_cleanup' = last_cleanup]_vars

\* precompute_embeddings returned for mock while the memory cache of mock
\* held an entry that a store wrote and no placeholder
C23_Witness ==
    /\ tasks[1].op = "precompute"
    /\ tasks[1].pc = "done"
    /\ tasks[1].model = "mock"
    /\ Len(tasks[1].items) = 2
    /\ Len(memory_caches["mock"]) = 1
    /\ memory_caches["mock"][1].value.access_count = 1

\* the lookups of model m that have begun and have not been handed back
LookupsOf(m) == {t \in Tasks : tasks[t].op = "lookup" /\ tasks[t].model = m}

\* the part of total_requests of model m that lookups handed back to their
\* callers have added: the counter less the items that the lookups still in
\* the task slots have processed
Tallied(m) ==
    cache_stats[m].total_requests
        - SumOver([t \in Tasks |-> IF t \in LookupsOf(m) THEN tasks[t].idx - 1 ELSE 0],
                  Tasks)

\* a lookup that has completed has processed its whole batch, each item
\* once, as a hit or as a miss
CompletedLookupsAreWhole ==
    \A t \in Tasks :
        (tasks[t].op = "lookup" /\ tasks[t].pc = "done") =>
            /\ tasks[t].idx - 1 = Len(tasks[t].items)
            /\ Len(tasks[t].hits) + Len(tasks[t].misses) = Len(tasks[t].items)

\* when every lookup has completed, the hits and the misses add up to the
\* total
QuiescentCountersAgree ==
    \A m \in Models :
        (\A t \in LookupsOf(m) : tasks[t].pc = "done") =>
            cache_stats[m].cache_hits + cache_stats[m].cache_misses
                = cache_stats[m].total_requests

\* whatever interleaves, the handed-back part of total_requests grows by the
\* batch size of a lookup in the step that hands the completed lookup back,
\* and in no other step
EachBatchCountsOnce ==
    \A m \in Models :
        LET handed(t) == /\ t \in LookupsOf(m)
                         /\ tasks[t].pc = "done"
                         /\ tasks'[t].op = "none"
        IN Tallied(m)' - Tallied(m)
            = SumOver([t \in Tasks |-> IF handed(t) THEN Len(tasks[t].items) ELSE 0],
                      Tasks)

\* C24: the counters lose no update when lookups interleave at the redis
\* awaits: starting from zero, total_requests of a model grows by exactly the
\* batch size of each lookup that completes, so that after any set of
\* interleaved lookups has completed it is the sum of their batch sizes, and
\* cache_hits + cache_misses is the same sum.
C24_NoLostCounterUpdates ==
    /\ [](CompletedLookupsAreWhole /\ QuiescentCountersAgree)
    /\ [][EachBatchCountsOnce]_vars

\* a lookup of two items began in the first slot right after a store that
\* nothing interleaved with returned, a second lookup of two items began, completed and was handed back
\* while the first was suspended, and the first has now completed: four
\* items are tallied, two hits and two misses
C24_Witness ==
    /\ tasks[1].op = "lookup"
    /\ tasks[1].pc = "done"
    /\ tasks[1].model = "kobert"
    /\ tasks[1].after # <<>>
    /\ tasks[1].after[1].op = "store"
    /\ tasks[1].after[1].clean
    /\ Len(tasks[1].hits) = 1
    /\ Len(tasks[1].misses) = 1
    /\ tasks[2].pc = "idle"
    /\ ops = 0
    /\ cache_stats["kobert"].total_requests = 4
    /\ cache_stats["kobert"].cache_hits = 2
    /\ cache_stats["kobert"].cache_misses = 2

\* One caller that looks up one text at a time for mock, more often than the
\* timing window is long; time passes between the calls.
InitTimes == Init /\ scope = {"mock"} /\ ops = TimingWindow + 1 /\ keep = {}

NextTimes ==
    \/ Return(1)
    \/ \E m \in scope, x \in Texts : Lookup(1, m, <<x>>)
    \/ TickBetweenCalls

SpecTimes == InitTimes /\ [][NextTimes]_vars

\* after a lookup has returned, avg_retrieval_time_ms of its model is the
\* mean of the durations of the last min(100, n) of the n lookups so far
AverageIsOverWindow ==
    \A t \in Tasks :
        LET tk == tasks[t] IN
        (tk.op = "lookup" /\ tk.pc = "done") =>
            LET times == request_times[tk.model]
                n == Len(times)
                k == Min(TimingWindow, n)
            IN SameRatio(cache_stats[tk.model].avg_retrieval_time_ms,
                         SumSeq(SubSeq(times, n - k + 1, n)), k)

\* C25: for every model the list of lookup timings that the service retains
\* holds at most 100 samples in every reachable state, and
\* avg_retrieval_time_ms after a lookup is the mean of the durations of the
\* last min(100, number of lookups so far) lookups.
C25_TimingsKeepLastHundred ==
    /\ \A m \in Models : Len(request_times[m]) <= TimingWindow
    /\ AverageIsOverWindow

\* the declared dimension of a CachedEmbedding is the length of its vector
WellFormed(e) == e.dimension = Len(e.embedding_vector)

\* C26: every CachedEmbedding held by a memory cache, encoded in a redis
\* payload, decoded from one or returned as a hit has dimension equal to the
\* length of its embedding_vector, whether store_embeddings built it from a
\* result or precompute_embeddings built it as a placeholder.
C26_DimensionIsVectorLength ==
    /\ \A m \in DOMAIN memory_caches :
            \A i \in 1..Len(memory_caches[m]) : WellFormed(memory_caches[m][i].value)
    /\ \A k \in DOMAIN redis :
            /\ WellFormed(redis[k].data.dict)
            /\ Decodable(redis[k].data, cache_configs[ConfigOf(redis[k].data.dict.model_name)].compression)
                    => WellFormed(_decompress_embedding(
                            redis[k].data,
                            cache_configs[ConfigOf(redis[k].data.dict.model_name)].compression))
    /\ \A t \in Tasks :
            /\ \A j \in 1..Len(tasks[t].hits) : WellFormed(tasks[t].hits[j].e)
            /\ tasks[t].op \in {"store", "precompute"} =>
                    \A j \in 1..Len(tasks[t].payload) : WellFormed(tasks[t].payload[j].dict)

\* a lookup of onnx_kobert returned two hits decoded from redis: an entry
\* that a store built and a placeholder
C26_Witness ==
    /\ tasks[1].op = "lookup"
    /\ tasks[1].pc = "done"
    /\ tasks[1].model = "onnx_kobert"
    /\ Len(tasks[1].hits) = 2
    /\ \E i, j \in 1..2 :
        /\ tasks[1].hits[i].e.dimension = PlaceholderDimension
        /\ tasks[1].hits[i].e.access_count = 1
        /\ tasks[1].hits[j].e.dimension = 2
        /\ tasks[1].hits[j].e.access_count = 2

\* Two callers whose stores and precomputes of one text interleave at the
\* awaits on redis, for the models that reach redis; redis answers every call
\* and no time passes.
InitPreConc ==
    /\ Init
    /\ scope \in {{"kobert"}, {"onnx_kobert"}}
    /\ ops = MaxOps
    /\ keep = {}

NextPreConc ==
    \/ \E t \in Tasks : Return(t)
    \/ \E t \in Tasks, m \in scope, x \in Texts : Store(t, m, <<x>>)
    \/ \E t \in Tasks : StoreResume(t, "ok")
    \/ \E t \in Tasks, m \in scope, x \in Texts : Precompute(t, m, <<x>>)
    \/ \E t \in Tasks : PrecomputeGetResume(t, "ok")
    \/ \E t \in Tasks : PrecomputeSetexResume(t, "ok")
    \/ InitRedisConnect
    \/ InitRedisPingOk

SpecPreConc == InitPreConc /\ [][NextPreConc]_vars

\* the vectors of the entries that the tiers hold for (model_name, text)
HeldVectors(model_name, text) ==
    LET h == _generate_text_hash(text, model_name)
        key == RedisKey(ConfigOf(model_name), h)
    IN (IF model_name \in DOMAIN memory_caches
           /\ TTLContains(memory_caches[model_name], h, now)
        THEN {TTLGetValue(memory_caches[model_name], h, now).embedding_vector}
        ELSE {})
       \cup
       (IF RedisHolds(key) THEN {redis[key].data.dict.embedding_vector} ELSE {})

\* C27: precompute_embeddings never overwrites what store_embeddings wrote:
\* however a precompute interleaves with the stores of a (model, text), when
\* a store of it has completed the entries held for it carry the vector that
\* the store was given, not the placeholder.
C27_PrecomputeKeepsStoredEntry ==
    \A t \in Tasks :
        LET tk == tasks[t] IN
        (tk.op = "store" /\ tk.pc = "done") =>
            \A i \in 1..Len(tk.items) :
                \A v \in HeldVectors(tk.model, tk.items[i].text) :
                    v = tk.results[i].vector

\* a store that begins while no invalidate is in a task slot
StoreOutsideInvalidate(t, model_name, b) ==
    /\ \A u \in Tasks : tasks[u].op # "invalidate"
    /\ Store(t, model_name, b)

\* an invalidate that begins while no store is in a task slot
InvalidateOutsideStore(t, model_name) ==
    /\ \A u \in Tasks : tasks[u].op # "store"
    /\ Invalidate(t, model_name)

\* Two callers of a HYBRID model: lookups interleave with an invalidate at
\* the awaits on redis, and no store runs while an invalidate does; redis
\* answers every call and no time passes.
InitInvConc == Init /\ scope = {"kobert"} /\ ops = MaxOps /\ keep = {}

NextInvConc ==
    \/ \E t \in Tasks : Return(t)
    \/ \E t \in Tasks, m \in scope, x \in Texts : Lookup(t, m, <<x>>)
    \/ \E t \in Tasks : LookupResume(t, "ok")
    \/ \E t \in Tasks, m \in scope, x \in Texts : StoreOutsideInvalidate(t, m, <<x>>)
    \/ \E t \in Tasks : StoreResume(t, "ok")
    \/ \E t \in Tasks, m \in scope : InvalidateOutsideStore(t, m)
    \/ \E t \in Tasks : InvalidateKeysResume(t, "ok")
    \/ \E t \in Tasks : InvalidateDeleteResume(t, "ok")
    \/ InitRedisConnect
    \/ InitRedisPingOk

SpecInvConc == InitInvConc /\ [][NextInvConc]_vars

\* C28: a lookup that interleaves with invalidate_cache(model) of a HYBRID
\* model does not bring back what the invalidate removes: when the invalidate
\* has completed, no other call is running and no store ran meanwhile, the
\* memory cache of the model holds no entry and redis holds no key of the
\* model, so that no entry stored before the invalidate began is a hit.
C28_InvalidateSurvivesLookups ==
    \A t \in Tasks :
        LET tk == tasks[t] IN
        ( /\ tk.op = "invalidate"
          /\ tk.pc = "done"
          /\ tk.model \in Models
          /\ cache_configs[tk.model].strategy = HYBRID
          /\ \A u \in Tasks \ {t} : tasks[u].pc = "idle" ) =>
            /\ TTLKeys(memory_caches[tk.model], now) = {}
            /\ RedisKeys(cache_configs[tk.model].redis_key_prefix) = {}

\* C29: every hit that get_cached_embeddings returns for an item carries
\* the embedding vector and the norm that store_embeddings was given for the
\* text and model of the item (the callers of the model compute one result
\* for a text and a model); no call, precompute_embeddings included, makes a
\* lookup return a vector that no caller stored.
C29_HitsCarryStoredVectors ==
    \A t \in Tasks :
        LET tk == tasks[t] IN
        (tk.op = "lookup" /\ tk.pc = "done") =>
            \A j \in 1..Len(tk.hits) :
                \E i \in 1..Len(tk.items) :
                    /\ tk.hits[j].e.text_hash
                            = _generate_text_hash(tk.items[i].text, tk.model)
                    /\ tk.hits[j].e.model_name = tk.model
                    /\ tk.hits[j].e.embedding_vector
                            = Compute(tk.items[i].text, tk.model).vector
                    /\ tk.hits[j].e.norm = Compute(tk.items[i].text, tk.model).norm

\* model names that are in no config, as a caller of invalidate_cache
\* passes them (the endpoint takes model_name from the query string)
UnknownNames == {"unknown", ""}

\* One caller that stores and looks up for one model and invalidates with a
\* model name that is in no config; redis answers the lookups and the stores.
InitBadName ==
    /\ Init
    /\ scope \in {{"mock"}, {"kobert"}, {"onnx_kobert"}}
    /\ ops = MaxOps
    /\ keep = {}

NextBadName ==
    \/ Return(1)
    \/ \E m \in scope, b \in Batches : Lookup(1, m, b)
    \/ LookupResume(1, "ok")
    \/ \E m \in scope, b \in Batches : Store(1, m, b)
    \/ StoreResume(1, "ok")
    \/ \E n \in UnknownNames : Invalidate(1, n)
    \/ \E o \in Outcomes : InvalidateKeysResume(1, o)
    \/ \E o \in Outcomes : InvalidateDeleteResume(1, o)
    \/ InitRedisConnect
    \/ InitRedisPingOk

SpecBadName == InitBadName /\ [][NextBadName]_vars

\* the step in which task t begins invalidate_cache with a model name that
\* is in no config
UnknownInvalidateStep(t) ==
    /\ tasks[t].op = "none"
    /\ tasks'[t].op = "invalidate"
    /\ tasks'[t].model # None
    /\ tasks'[t].model \notin Models

\* C30: invalidate_cache with a model_name that is in no config raises
\* before it touches anything: the call ends with ValueError, and the memory
\* caches, redis and the statistics of every model are what they were.
C30_UnknownModelInvalidateRaises ==
    [][\A t \in Tasks :
        UnknownInvalidateStep(t) =>
            /\ tasks'[t].pc = "raised"
            /\ tasks'[t].exc = "ValueError"
            /\ memory_caches' = memory_caches
            /\ redis' = redis
            /\ cache_stats' = cache_stats
            /\ request_times' = request_times]_vars

====
